---- MODULE Spec2Model ----
(***************************************************************************)
(* A model of the bookkeeping core of finance_manager: the account ledger  *)
(* (ledger.py), the recurring processors (finance.py), the debt and        *)
(* credit-card operations (debts.py, cc_statements.py), the rule-based     *)
(* categoriser (rules.py) and the per-user storage paths (user_data.py).   *)
(*                                                                         *)
(* Conventions.  Money is counted in whole cents, so round(x, 2) of a sum  *)
(* or difference of amounts is exact; only interest needs real rounding.   *)
(* A text cell (account_id, category, note, contains) is a sequence of     *)
(* one-character strings, so that strip(), lower() and the substring test  *)
(* are computed.  A date is the ordinal of a day, 1 = 2024-01-01; a        *)
(* next_due_date cell that is not a date is EmptyCell or GarbageText.      *)
(* Every CSV file is a sequence of rows, one function of the user per      *)
(* file name: file[u] is data/<u>/<file>.csv, header-only after bootstrap. *)
(***************************************************************************)
EXTENDS Integers, Sequences, FiniteSets, TLC

\* ------------------------------------------------------------------ bounds
MaxOps == 2

MaxPosts == 6

MaxDay == 62

\* ------------------------------------------------------------- arithmetic
Abs(x) == IF x < 0 THEN -x ELSE x

Max2(a, b) == IF a >= b THEN a ELSE b

Min2(a, b) == IF a <= b THEN a ELSE b

MinOf(S) == CHOOSE x \in S : \A y \in S : x <= y

MaxOf(S) == CHOOSE x \in S : \A y \in S : x >= y

\* round(x, 2) where x is already a whole number of cents
Round2(cents) == cents

\* round(n / d, 2) in cents for d > 0: Python rounds halves to even
RoundDiv(n, d) ==
  LET q == n \div d
      r == n % d
  IN  IF 2 * r < d THEN q
      ELSE IF 2 * r > d THEN q + 1
      ELSE IF q % 2 = 0 THEN q ELSE q + 1

\* ------------------------------------------------------------------- text
LowerChar(c) ==
  CASE c = "A" -> "a"
    [] c = "B" -> "b"
    [] c = "C" -> "c"
    [] c = "T" -> "t"
    [] OTHER -> c

Lower(t) == [i \in DOMAIN t |-> LowerChar(t[i])]

RECURSIVE LStrip(_)
LStrip(t) == IF t # <<>> /\ Head(t) = " " THEN LStrip(Tail(t)) ELSE t

RECURSIVE RStrip(_)
RStrip(t) ==
  IF t # <<>> /\ t[Len(t)] = " " THEN RStrip(SubSeq(t, 1, Len(t) - 1)) ELSE t

Strip(t) == RStrip(LStrip(t))

\* Python's `needle in text`
IsSubstring(needle, text) ==
  \E i \in 1..(Len(text) - Len(needle) + 1) :
     SubSeq(text, i, i + Len(needle) - 1) = needle

\* str(account_type).strip().lower() for the account types in use
TypeNorm(t) ==
  CASE t = "Current" -> "current"
    [] t = "Savings" -> "savings"
    [] t = "Credit Card" -> "credit card"
    [] t = "Credit Card " -> "credit card"
    [] t = "Investment" -> "investment"
    [] t = "Other" -> "other"
    [] t = "Loan" -> "loan"
    [] OTHER -> t

\* --------------------------------------------------------------- calendar
IsLeap(y) == (y % 4 = 0 /\ y % 100 # 0) \/ y % 400 = 0

DaysInMonth(y, m) ==
  IF m = 2 THEN (IF IsLeap(y) THEN 29 ELSE 28)
  ELSE IF m \in {4, 6, 9, 11} THEN 30 ELSE 31

RECURSIVE OrdToYMD(_, _, _)
OrdToYMD(n, y, m) ==
  IF n > DaysInMonth(y, m)
  THEN OrdToYMD(n - DaysInMonth(y, m),
                IF m = 12 THEN y + 1 ELSE y,
                IF m = 12 THEN 1 ELSE m + 1)
  ELSE <<y, m, n>>

ToYMD(n) == OrdToYMD(n, 2024, 1)

RECURSIVE DaysBefore(_, _)
DaysBefore(y, m) ==
  IF y = 2024 /\ m = 1 THEN 0
  ELSE LET py == IF m = 1 THEN y - 1 ELSE y
           pm == IF m = 1 THEN 12 ELSE m - 1
       IN  DaysBefore(py, pm) + DaysInMonth(py, pm)

FromYMD(y, m, d) == DaysBefore(y, m) + d

\* month arithmetic that runs over into the month after a short month
AddMonths_Overflowing(n, k) ==
  LET ymd == ToYMD(n)
      tot == ymd[1] * 12 + (ymd[2] - 1) + k
      y2 == tot \div 12
      m2 == (tot % 12) + 1
  IN  FromYMD(y2, m2, ymd[3])

\* dt + relativedelta(months=k): same day of month, clamped to the month's end
AddMonths(n, k) ==
  LET ymd == ToYMD(n)
      tot == ymd[1] * 12 + (ymd[2] - 1) + k
      y2 == tot \div 12
      m2 == (tot % 12) + 1
  IN  FromYMD(y2, m2, Min2(ymd[3], DaysInMonth(y2, m2)))

AddDays(n, k) == n + k

\* a next_due_date cell that holds no date
EmptyCell == 0

GarbageText == 0 - 1

NaT == 0

\* pd.to_datetime(cell, errors="coerce")
ToDatetime(cell) == IF cell >= 1 THEN cell ELSE NaT

IsNa(ts) == ts = NaT

\* what DataFrame.to_csv writes for a datetime cell
DateCell(ts) == IF IsNa(ts) THEN EmptyCell ELSE ts


\* ------------------------------------------------------------ identifiers
Users == {"u1", "u2"}

NoUser == "none"

IdA == <<"A", "1">>

IdB == <<"B", "1">>

IdC == <<"C", "1">>

IdX == <<"X", "9">>

IdD == <<"D", "1">>

NoText == <<>>

CatSalary == <<"p", "a", "y">>

CatFood == <<"f", "o", "o", "d">>

CatInterest == <<"i", "n", "t", "e", "r", "e", "s", "t">>

CatInterestLoan == <<"I", "n", "t", "e", "r", "e", "s", "t">>

CatDebtPayment == <<"D", "e", "b", "t", " ", "P", "a", "y", "m", "e", "n", "t">>

CatTransferOut == <<"t", "r", "a", "n", "s", "f", "e", "r", "_", "o", "u", "t">>

CatTransferIn == <<"t", "r", "a", "n", "s", "f", "e", "r", "_", "i", "n">>

NoteShop == <<"T", "a", "b">>

NoteApr == <<"A", "P", "R">>

NoteDebt == <<"d", "u", "e">>

\* ------------------------------------------------------------------ state
VARIABLES
  username,            \* st.session_state["username"] of the session served
  moduleDir,           \* the user directory that the path constants of
                       \* ledger.py, rules.py, debts.py, cc_statements.py name
  accounts,            \* accounts.csv of each user
  opening,             \* ghost: the balance each account row was created with
  transactions,        \* transactions.csv of each user
  recurring_expenses,  \* recurring_expenses.csv of each user
  recurring_incomes,   \* recurring_incomes.csv of each user
  debts,               \* debts.csv of each user
  statements,          \* credit_card_statements.csv of each user
  rules,               \* rules.csv of each user
  today,               \* the ordinal of the current day
  pc,                  \* position of the handler in progress, "idle" if none
  frame,               \* the locals of the handler in progress
  last,                \* ghost: the operation that ended last, its arguments
  pre,                 \* ghost: the files as they were when it started
  ops,                 \* ghost: the number of handlers started so far
  payments,            \* ghost: the payments recorded against statements
  sessions,            \* the postings that concurrent sessions have in progress
  cache                \* what st.cache_data holds for load_accounts

vars == <<username, moduleDir, accounts, opening, transactions,
          recurring_expenses, recurring_incomes, debts, statements, rules,
          today, pc, frame, last, pre, ops, payments, sessions, cache>>

Files == [accounts |-> accounts, transactions |-> transactions,
          recurring_expenses |-> recurring_expenses,
          recurring_incomes |-> recurring_incomes,
          debts |-> debts, statements |-> statements, rules |-> rules]

\* the record kept of an operation that has ended; dry_run is the argument
\* of apply_rules_to_transactions, and again says that the operation before
\* it was a persisted run of the same function; failed holds, for a run of a
\* recurring processor, the schedules whose posting raised; for a
\* post_expense, again says that the operation before it was the post_income
\* of the same amount to the same account, and before is the accounts file as
\* that post_income found it; for a commit of the CSV import, before is the
\* uploaded rows and again says that the operation before it was a commit of
\* the same rows into the same account
Ended(op, user, a, b, amount, when, raised, result) ==
  [op |-> op, user |-> user, account_id |-> a, to_id |-> b,
   amount |-> amount, when |-> when, raised |-> raised, result |-> result,
   dry_run |-> FALSE, again |-> FALSE, failed |-> {}, before |-> <<>>]

NoOp == Ended("none", NoUser, NoText, NoText, 0, 0, "", 0)

\* kind, rec, i, nd: the locals of a recurring processor; op, acc, script:
\* a ledger operation taken write by write, acc the accounts table in memory
\* and script the file writes it still has to make, in order
NoFrame == [kind |-> "none", rec |-> <<>>, i |-> 0, nd |-> NaT,
            op |-> NoOp, acc |-> <<>>, script |-> <<>>, failed |-> {}]

\* the streamlit sessions (one thread each) that serve the same user at once
Sessions == {"s1", "s2"}

\* the locals of a post_income call in one session: acc is the accounts table
\* it loaded, next_id the id it read for its row; saved_at is a ghost, the
\* number of save_accounts calls made so far when this session made its own
NoPosting == [pc |-> "idle", acc |-> <<>>, log |-> <<>>, account_id |-> NoText,
              amount |-> 0, next_id |-> 0, loaded_at |-> 0, saved_at |-> 0]

\* load_accounts is cached for the whole process and save_accounts clears the
\* cache after it has written; `at` is a ghost, the number of save_accounts
\* writes made when the table was read from the file
NoCache == [full |-> FALSE, table |-> <<>>, at |-> 0]

\* ----------------------------------------------------------------- ledger
\* ledger.py works on the two files its constants name
Ledger == [accounts |-> accounts[moduleDir],
           transactions |-> transactions[moduleDir]]

\* the largest id in the file, given out again
NextSeqId_NoStep(rows) ==
  IF rows = <<>> THEN 1
  ELSE MaxOf({rows[i].id : i \in DOMAIN rows})

\* _next_seq_id: 1 for a file without rows, else the largest id plus one
NextSeqId(rows) ==
  IF rows = <<>> THEN 1
  ELSE MaxOf({rows[i].id : i \in DOMAIN rows}) + 1

TxRow(when, kind, amount, currency, account_id, counterparty, category, ref_table, ref_id, note) ==
  [id |-> 0, date |-> when, kind |-> kind, amount |-> amount,
   currency |-> currency, account_id |-> account_id,
   counterparty_account_id |-> counterparty, category |-> category,
   ref_table |-> ref_table, ref_id |-> ref_id, note |-> note]

AppendTx(txs, row) == Append(txs, [row EXCEPT !.id = NextSeqId(txs)])

\* a ledger that treats a card's balance as funds held
ApplyDeltaToAccount_NoCard(acc, account_id, delta) ==
  LET idx == {i \in DOMAIN acc : acc[i].account_id = account_id}
  IN  IF acc = <<>> \/ idx = {} THEN acc
      ELSE [acc EXCEPT ![MinOf(idx)].balance = Round2(@ + delta)]

ApplyDeltaToAccount(acc, account_id, delta) ==
  LET idx == {i \in DOMAIN acc : acc[i].account_id = account_id}
  IN  IF acc = <<>> \/ idx = {} THEN acc
      ELSE LET i == MinOf(idx)
               bal == acc[i].balance
               new_bal == IF TypeNorm(acc[i].account_type) = "credit card"
                          THEN bal - delta ELSE bal + delta
           IN  [acc EXCEPT ![i].balance = Round2(new_bal)]

IncomeRow(account_id, amount, currency, when, category, note, ref_table, ref_id) ==
  TxRow(when, "income", amount, currency, account_id, NoText, category,
        ref_table, ref_id, note)

ExpenseRow(account_id, amount, currency, when, category, note, ref_table, ref_id) ==
  TxRow(when, "expense", amount, currency, account_id, NoText, category,
        ref_table, ref_id, note)

post_income(L, account_id, amount, currency, when, category, note, ref_table, ref_id) ==
  [accounts |-> ApplyDeltaToAccount(L.accounts, account_id, Abs(amount)),
   transactions |-> AppendTx(L.transactions,
      IncomeRow(account_id, amount, currency, when, category, note,
                ref_table, ref_id))]

\* an expense that is added to the balance
post_expense_Credits(L, account_id, amount, currency, when, category, note, ref_table, ref_id) ==
  [accounts |-> ApplyDeltaToAccount(L.accounts, account_id, Abs(amount)),
   transactions |-> AppendTx(L.transactions,
      ExpenseRow(account_id, amount, currency, when, category, note,
                 ref_table, ref_id))]

post_expense(L, account_id, amount, currency, when, category, note, ref_table, ref_id) ==
  [accounts |-> ApplyDeltaToAccount(L.accounts, account_id, 0 - Abs(amount)),
   transactions |-> AppendTx(L.transactions,
      ExpenseRow(account_id, amount, currency, when, category, note,
                 ref_table, ref_id))]

TransferOutRow(from_id, to_id, amount, currency, when, note) ==
  TxRow(when, "transfer", amount, currency, from_id, to_id, CatTransferOut,
        "", 0, note)

TransferInRow(from_id, to_id, amount, currency, when, note) ==
  TxRow(when, "transfer", amount, currency, to_id, from_id, CatTransferIn,
        "", 0, note)

\* a transfer whose second row repeats the first row's counterparty
transfer_Unmirrored(L, from_id, to_id, amount, currency, when, note) ==
  LET acc1 == ApplyDeltaToAccount(L.accounts, from_id, 0 - Abs(amount))
      acc2 == ApplyDeltaToAccount(acc1, to_id, Abs(amount))
      tx1 == AppendTx(L.transactions,
               TxRow(when, "transfer", amount, currency, from_id, to_id,
                     CatTransferOut, "", 0, note))
      tx2 == AppendTx(tx1,
               TxRow(when, "transfer", amount, currency, to_id, to_id,
                     CatTransferIn, "", 0, note))
  IN  [accounts |-> acc2, transactions |-> tx2]

transfer(L, from_id, to_id, amount, currency, when, note) ==
  LET acc1 == ApplyDeltaToAccount(L.accounts, from_id, 0 - Abs(amount))
      acc2 == ApplyDeltaToAccount(acc1, to_id, Abs(amount))
      tx1 == AppendTx(L.transactions,
               TransferOutRow(from_id, to_id, amount, currency, when, note))
      tx2 == AppendTx(tx1,
               TransferInRow(from_id, to_id, amount, currency, when, note))
  IN  [accounts |-> acc2, transactions |-> tx2]

\* the yearly rate charged every month
CardInterest_Yearly(bal, apr) == RoundDiv(bal * apr, 100)

\* round(bal * (apr / 100.0 / 12.0), 2), apr a whole number of percent
CardInterest(bal, apr) == RoundDiv(bal * apr, 1200)

\* the loop of accrue_credit_card_interest from row i on
RECURSIVE AccrueCardsFrom(_, _, _)
AccrueCardsFrom(L, i, when) ==
  IF i > Len(L.accounts) THEN L
  ELSE LET row == L.accounts[i]
           interest == CardInterest(row.balance, row.apr)
       IN  IF TypeNorm(row.account_type) # "credit card"
              \/ row.balance <= 0 \/ row.apr <= 0 \/ interest <= 0
           THEN AccrueCardsFrom(L, i + 1, when)
           ELSE AccrueCardsFrom(
                  [accounts |-> ApplyDeltaToAccount(L.accounts,
                                   row.account_id, 0 - interest),
                   transactions |-> AppendTx(L.transactions,
                      TxRow(when, "interest", interest, row.currency,
                            row.account_id, NoText, CatInterest, "", 0,
                            NoteApr))],
                  i + 1, when)

accrue_credit_card_interest(L, when) == AccrueCardsFrom(L, 1, when)


\* ------------------------------------------------------------------ debts
\* str(debt_type).strip().lower()
DebtTypeNorm(t) ==
  CASE t = "Loan" -> "loan"
    [] t = "loan " -> "loan"
    [] OTHER -> t

\* three per cent of the balance, with no floor
default_min_payment_NoFloor(balance, explicit_min) ==
  IF explicit_min > 0 THEN Round2(explicit_min)
  ELSE RoundDiv(Abs(balance) * 3, 100)

\* explicit_min = 0 stands for None: the page passes `explicit_min or None`
default_min_payment(balance, explicit_min) ==
  IF explicit_min > 0 THEN Round2(explicit_min)
  ELSE Max2(2500, RoundDiv(Abs(balance) * 3, 100))

\* the yearly rate charged every month
monthly_interest_Yearly(amount, apr) ==
  IF apr <= 0 \/ amount <= 0 THEN 0 ELSE RoundDiv(amount * apr, 100)

monthly_interest(amount, apr) ==
  IF apr <= 0 \/ amount <= 0 THEN 0 ELSE RoundDiv(amount * apr, 1200)

\* the loop of accrue_loan_interest_all from debt row i on; acc0 is the
\* accounts table as loaded once before the loop
RECURSIVE AccrueLoansFrom(_, _, _, _, _, _)
AccrueLoansFrom(D, L, acc0, i, n, when) ==
  IF i > Len(D) THEN [debts |-> D, ledger |-> L, n |-> n]
  ELSE
    LET r == D[i]
        acc_id == Strip(r.account_id)
        idx == {k \in DOMAIN acc0 : acc0[k].account_id = acc_id}
        linked == acc_id # NoText /\ idx # {}
        principal == IF linked THEN acc0[MinOf(idx)].balance
                     ELSE r.current_balance
        intr == monthly_interest(principal, r.apr)
    IN  IF DebtTypeNorm(r.debt_type) \notin {"loan", "overdraft", "other"}
           \/ r.apr <= 0 \/ intr <= 0
        THEN AccrueLoansFrom(D, L, acc0, i + 1, n, when)
        ELSE IF linked
        THEN AccrueLoansFrom(D,
               post_expense(L, acc_id, intr, acc0[MinOf(idx)].currency, when,
                            CatInterestLoan, NoteApr, "debts_interest", r.id),
               acc0, i + 1, n + 1, when)
        ELSE AccrueLoansFrom(
               [D EXCEPT ![i].current_balance =
                            Round2(r.current_balance + intr)],
               L, acc0, i + 1, n + 1, when)

accrue_loan_interest_all(D, L, when) ==
  IF D = <<>> THEN [debts |-> D, ledger |-> L, n |-> 0]
  ELSE AccrueLoansFrom(D, L, L.accounts, 1, 0, when)

\* the rows of the table that the Debts page shows: the live balance of each
\* debt and the minimum payment computed for it
get_debts(D, acc) ==
  [i \in DOMAIN D |->
     LET idx == {k \in DOMAIN acc : acc[k].account_id = D[i].account_id}
         bal == IF D[i].account_id # NoText /\ idx # {}
                THEN acc[MinOf(idx)].balance ELSE D[i].current_balance
     IN  [id |-> D[i].id, balance |-> Round2(bal),
          explicit_min |-> D[i].min_payment,
          min_due |-> default_min_payment(bal, D[i].min_payment)]]

\* debt_account_id = NoText and debt_row_id = 0 stand for None
pay_debt(D, L, from_id, debt_account_id, amount, currency, when, note, debt_row_id) ==
  LET rows == {i \in DOMAIN D : D[i].id = debt_row_id}
  IN  IF amount <= 0
      THEN [debts |-> D, ledger |-> L, raised |-> "ValueError"]
      ELSE IF debt_account_id # NoText
      THEN [debts |-> D,
            ledger |-> transfer(L, from_id, debt_account_id, amount,
                                currency, when, note),
            raised |-> ""]
      ELSE IF debt_row_id = 0 \/ rows = {}
      THEN [debts |-> D, ledger |-> L, raised |-> "ValueError"]
      ELSE LET idx == MinOf(rows)
               new_bal == Max2(0, D[idx].current_balance - amount)
           IN  [debts |-> [D EXCEPT ![idx].current_balance = Round2(new_bal)],
                ledger |-> post_expense(L, from_id, amount, currency, when,
                             CatDebtPayment, note, "debts_payment",
                             debt_row_id),
                raised |-> ""]

\* ------------------------------------------------------------- statements
\* the floor taken for a ceiling
default_min_due_Min(balance, pct, floor) ==
  Min2(floor, RoundDiv(Abs(balance) * pct, 100))

default_min_due(balance, pct, floor) ==
  Max2(floor, RoundDiv(Abs(balance) * pct, 100))

\* a statement for any account that exists, card or not
close_statement_AnyAccount(S, acc, card_account_id, period_end, due_days, min_pct, min_floor) ==
  LET idx == {i \in DOMAIN acc : acc[i].account_id = card_account_id}
  IN  IF idx = {}
      THEN [statements |-> S, raised |-> "ValueError", nid |-> 0]
      ELSE LET i == MinOf(idx)
               stmt_bal == Round2(acc[i].balance)
               nid == NextSeqId(S)
           IN  [statements |-> Append(S,
                  [id |-> nid, card_account_id |-> card_account_id,
                   period_end |-> period_end, statement_balance |-> stmt_bal,
                   apr_at_cycle |-> acc[i].apr,
                   min_due |-> default_min_due(stmt_bal, min_pct, min_floor),
                   due_date |-> AddDays(period_end, due_days),
                   paid_amount |-> 0, paid_date |-> EmptyCell,
                   carried_balance |-> stmt_bal]),
                raised |-> "", nid |-> nid]

close_statement(S, acc, card_account_id, period_end, due_days, min_pct, min_floor) ==
  LET idx == {i \in DOMAIN acc : acc[i].account_id = card_account_id}
  IN  IF idx = {} \/ TypeNorm(acc[MinOf(idx)].account_type) # "credit card"
      THEN [statements |-> S, raised |-> "ValueError", nid |-> 0]
      ELSE LET i == MinOf(idx)
               stmt_bal == Round2(acc[i].balance)
               nid == NextSeqId(S)
           IN  [statements |-> Append(S,
                  [id |-> nid, card_account_id |-> card_account_id,
                   period_end |-> period_end, statement_balance |-> stmt_bal,
                   apr_at_cycle |-> acc[i].apr,
                   min_due |-> default_min_due(stmt_bal, min_pct, min_floor),
                   due_date |-> AddDays(period_end, due_days),
                   paid_amount |-> 0, paid_date |-> EmptyCell,
                   carried_balance |-> stmt_bal]),
                raised |-> "", nid |-> nid]

\* the payment replaces what was paid before
record_cc_payment_Overwrites(S, L, stmt_id, from_bank_account_id, amount, currency, when, note) ==
  LET rows == {i \in DOMAIN S : S[i].id = stmt_id}
  IN  IF rows = {}
      THEN [statements |-> S, ledger |-> L, raised |-> "ValueError"]
      ELSE LET idx == MinOf(rows)
               new_paid == Round2(amount)
               carried == Max2(0, Round2(S[idx].statement_balance - new_paid))
           IN  [statements |-> [S EXCEPT ![idx].paid_amount = new_paid,
                                         ![idx].paid_date = when,
                                         ![idx].carried_balance = carried],
                ledger |-> transfer(L, from_bank_account_id,
                                    S[idx].card_account_id, amount, currency,
                                    when, note),
                raised |-> ""]

record_cc_payment(S, L, stmt_id, from_bank_account_id, amount, currency, when, note) ==
  LET rows == {i \in DOMAIN S : S[i].id = stmt_id}
  IN  IF rows = {}
      THEN [statements |-> S, ledger |-> L, raised |-> "ValueError"]
      ELSE LET idx == MinOf(rows)
               new_paid == Round2(S[idx].paid_amount + amount)
               carried == Max2(0, Round2(S[idx].statement_balance - new_paid))
           IN  [statements |-> [S EXCEPT ![idx].paid_amount = new_paid,
                                         ![idx].paid_date = when,
                                         ![idx].carried_balance = carried],
                ledger |-> transfer(L, from_bank_account_id,
                                    S[idx].card_account_id, amount, currency,
                                    when, note),
                raised |-> ""]


\* ------------------------------------------------------------------ rules
RuleBefore(a, b) ==
  a.priority < b.priority \/ (a.priority = b.priority /\ a.id < b.id)

\* sort_values(["priority", "id"])
RECURSIVE SortRules(_)
SortRules(R) ==
  IF R = <<>> THEN <<>>
  ELSE LET k == MinOf({i \in DOMAIN R :
                         \A j \in DOMAIN R : ~RuleBefore(R[j], R[i])})
           rest == [j \in 1..(Len(R) - 1) |-> IF j < k THEN R[j] ELSE R[j + 1]]
       IN  <<R[k]>> \o SortRules(rest)

load_rules(R) == SortRules(R)

\* str(r["kind"]).strip().lower()
KindNorm(k) ==
  CASE k = "Expense" -> "expense"
    [] k = "Income" -> "income"
    [] k = " " -> ""
    [] OTHER -> k

match_contains(text, needle, case_sensitive) ==
  LET t == IF case_sensitive THEN text ELSE Lower(text)
      n == IF case_sensitive THEN needle ELSE Lower(needle)
  IN  n # NoText /\ IsSubstring(n, t)

TxColumns == {"note", "category", "account_id"}

TxField(row, field) ==
  CASE field = "note" -> row.note
    [] field = "category" -> row.category
    [] field = "account_id" -> row.account_id

RuleMatches(row, r) ==
  LET field == IF r.match_field = "" THEN "note" ELSE r.match_field
  IN  /\ r.active
      /\ field \in TxColumns
      /\ match_contains(TxField(row, field), r.contains, r.case_sensitive)

\* the last rule that matches, not the first
FirstRule_Last(row, SR) ==
  LET hits == {k \in DOMAIN SR : RuleMatches(row, SR[k])}
  IN  IF hits = {} THEN 0 ELSE MaxOf(hits)

\* the rule that the inner loop stops at for this row, 0 if none
FirstRule(row, SR) ==
  LET hits == {k \in DOMAIN SR : RuleMatches(row, SR[k])}
  IN  IF hits = {} THEN 0 ELSE MinOf(hits)

Uncategorised(row) == Strip(row.category) = NoText

ApplyRulesToRow(row, SR) ==
  LET k == FirstRule(row, SR)
  IN  IF ~Uncategorised(row) \/ k = 0 THEN row
      ELSE [row EXCEPT !.category = SR[k].category,
                       !.kind = IF KindNorm(SR[k].kind) # ""
                                THEN KindNorm(SR[k].kind) ELSE @]

\* a dry run that writes the file all the same
apply_rules_to_transactions_Persisting(txs, R, dry_run) ==
  LET SR == load_rules(R)
      changed == Cardinality({i \in DOMAIN txs :
                     Uncategorised(txs[i]) /\ FirstRule(txs[i], SR) # 0})
      out == [i \in DOMAIN txs |-> ApplyRulesToRow(txs[i], SR)]
  IN  IF txs = <<>> \/ R = <<>> THEN [transactions |-> txs, changed |-> 0]
      ELSE [transactions |-> IF changed > 0 THEN out ELSE txs,
            changed |-> changed]

apply_rules_to_transactions(txs, R, dry_run) ==
  LET SR == load_rules(R)
      changed == Cardinality({i \in DOMAIN txs :
                     Uncategorised(txs[i]) /\ FirstRule(txs[i], SR) # 0})
      out == [i \in DOMAIN txs |-> ApplyRulesToRow(txs[i], SR)]
  IN  IF txs = <<>> \/ R = <<>> THEN [transactions |-> txs, changed |-> 0]
      ELSE [transactions |-> IF ~dry_run /\ changed > 0 THEN out ELSE txs,
            changed |-> changed]

\* -------------------------------------------------------------- recurrence
Frequencies ==
  {"Yearly", "Monthly", "Bi-Monthly", "Quarterly", "Weekly", "Bi-Weekly",
   "Daily"}

\* FREQ_OFFSETS.get(frequency, lambda dt: dt)(dt)
FreqOffset(frequency, dt) ==
  CASE frequency = "Yearly" -> AddMonths(dt, 12)
    [] frequency = "Monthly" -> AddMonths(dt, 1)
    [] frequency = "Bi-Monthly" -> AddMonths(dt, 2)
    [] frequency = "Quarterly" -> AddMonths(dt, 3)
    [] frequency = "Weekly" -> AddDays(dt, 7)
    [] frequency = "Bi-Weekly" -> AddDays(dt, 14)
    [] frequency = "Daily" -> AddDays(dt, 1)
    [] OTHER -> dt

\* a loop that stops one day early
Due_Strict(nd, day) == nd < day

\* the loop condition `nd <= today`
Due(nd, day) == nd <= day

time_calculation(next_due_date, frequency) ==
  IF IsNa(next_due_date) THEN NaT
  ELSE FreqOffset(frequency, ToDatetime(next_due_date))


\* ---------------------------------------------------------- initial files
Account(id, account_id, account_type, balance, apr) ==
  [id |-> id, account_id |-> account_id, account_type |-> account_type,
   balance |-> balance, currency |-> "GBP", apr |-> apr]

\* rows that add_account wrote in the first user's sessions
AccountsOfU1 ==
  <<Account(1, IdA, "Current", 10000, 0),
    Account(2, IdB, "Savings", 2500, 0),
    Account(3, IdC, "Credit Card", 100000, 24)>>

\* the second user chose the same account number for an account of their own
AccountsOfU2 == <<Account(1, IdA, "Current", 700, 0)>>

Debt(id, debt_type, account_id, current_balance, apr) ==
  [id |-> id, debt_type |-> debt_type, account_id |-> account_id,
   current_balance |-> current_balance, apr |-> apr, min_payment |-> 0]

DebtsOfU1 ==
  <<Debt(1, "loan", NoText, 50000, 12), Debt(2, "overdraft", IdB, 0, 12)>>

Rule(id, active, priority, kind, category, match_field, contains, cs) ==
  [id |-> id, active |-> active, priority |-> priority, kind |-> kind,
   category |-> category, match_field |-> match_field, contains |-> contains,
   case_sensitive |-> cs]

\* "Expense" is the kind the Add rule form preselects
RulesOfU1 == <<Rule(1, TRUE, 100, "Expense", CatFood, "note", <<"t", "a">>, FALSE)>>

Schedule(id, type, amount, frequency, next_due_date, account_id) ==
  [id |-> id, type |-> type, amount |-> amount, currency |-> "GBP",
   frequency |-> frequency, next_due_date |-> next_due_date,
   account_id |-> account_id, note |-> NoteDebt]

PerUser(u1rows, u2rows) == [u \in Users |-> IF u = "u1" THEN u1rows ELSE u2rows]

Balances(acc) == [i \in DOMAIN acc |-> acc[i].balance]

\* the state after the first user's first sessions, at an idle moment
InitWith(recExp, recInc, recExpU2, day) ==
  /\ username = "u1"
  /\ moduleDir = "u1"
  /\ accounts = PerUser(AccountsOfU1, AccountsOfU2)
  /\ opening = PerUser(Balances(AccountsOfU1), Balances(AccountsOfU2))
  /\ transactions = PerUser(<<>>, <<>>)
  /\ recurring_expenses = PerUser(recExp, recExpU2)
  /\ recurring_incomes = PerUser(recInc, <<>>)
  /\ debts = PerUser(DebtsOfU1, <<>>)
  /\ statements = PerUser(<<>>, <<>>)
  /\ rules = PerUser(RulesOfU1, <<>>)
  /\ today = day
  /\ pc = "idle"
  /\ frame = NoFrame
  /\ last = NoOp
  /\ pre = Files
  /\ ops = 0
  /\ payments = PerUser(<<>>, <<>>)
  /\ sessions = [s \in Sessions |-> NoPosting]
  /\ cache = NoCache

\* ---------------------------------------------------------------- actions
Idle == pc = "idle" /\ username \in Users /\ ops < MaxOps

\* the handler ends: what it was, and the files it found when it started
Ends(record) == last' = record /\ pre' = Files /\ ops' = ops + 1

SetLedger(L) ==
  /\ accounts' = [accounts EXCEPT ![moduleDir] = L.accounts]
  /\ transactions' = [transactions EXCEPT ![moduleDir] = L.transactions]

PostIncome(a, x, when, category, note, ref_table) ==
  /\ Idle
  /\ SetLedger(post_income(Ledger, a, x, "GBP", when, category, note,
                           ref_table, 0))
  /\ Ends(Ended("post_income", username, a, NoText, x, when, "", 0))
  /\ UNCHANGED <<username, moduleDir, opening, payments, sessions, cache, recurring_expenses,
                 recurring_incomes, debts, statements, rules, today, pc, frame>>

PostExpense(a, x, when, category, note, ref_table) ==
  /\ Idle
  /\ SetLedger(post_expense(Ledger, a, x, "GBP", when, category, note,
                            ref_table, 0))
  /\ LET undoes == /\ last.op = "post_income" /\ last.raised = ""
                   /\ last.account_id = a /\ last.amount = x
     IN  Ends([Ended("post_expense", username, a, NoText, x, when, "", 0)
                 EXCEPT !.again = undoes,
                        !.before = IF undoes THEN pre.accounts[moduleDir]
                                   ELSE <<>>])
  /\ UNCHANGED <<username, moduleDir, opening, payments, sessions, cache, recurring_expenses,
                 recurring_incomes, debts, statements, rules, today, pc, frame>>

Transfer(a, b, x, currency, when) ==
  /\ Idle
  /\ SetLedger(transfer(Ledger, a, b, x, currency, when, NoText))
  /\ Ends(Ended("transfer", username, a, b, x, when, "", 0))
  /\ UNCHANGED <<username, moduleDir, opening, payments, sessions, cache, recurring_expenses,
                 recurring_incomes, debts, statements, rules, today, pc, frame>>

AccrueCreditCardInterest(when) ==
  /\ Idle
  /\ SetLedger(accrue_credit_card_interest(Ledger, when))
  /\ Ends(Ended("accrue_credit_card_interest", username, NoText, NoText,
                   0, when, "", 0))
  /\ UNCHANGED <<username, moduleDir, opening, payments, sessions, cache, recurring_expenses,
                 recurring_incomes, debts, statements, rules, today, pc, frame>>

PayDebt(from_id, debt_account_id, x, when, debt_row_id) ==
  /\ Idle
  /\ LET res == pay_debt(debts[moduleDir], Ledger, from_id, debt_account_id,
                         x, "GBP", when, NoteDebt, debt_row_id)
     IN  /\ SetLedger(res.ledger)
         /\ debts' = [debts EXCEPT ![moduleDir] = res.debts]
         /\ Ends(Ended("pay_debt", username, from_id, debt_account_id, x,
                       when, res.raised, debt_row_id))
  /\ UNCHANGED <<username, moduleDir, opening, payments, sessions, cache, recurring_expenses,
                 recurring_incomes, statements, rules, today, pc, frame>>

AccrueLoanInterestAll(when) ==
  /\ Idle
  /\ LET res == accrue_loan_interest_all(debts[moduleDir], Ledger, when)
     IN  /\ SetLedger(res.ledger)
         /\ debts' = [debts EXCEPT ![moduleDir] = res.debts]
         /\ Ends(Ended("accrue_loan_interest_all", username, NoText, NoText,
                       0, when, "", res.n))
  /\ UNCHANGED <<username, moduleDir, opening, payments, sessions, cache, recurring_expenses,
                 recurring_incomes, statements, rules, today, pc, frame>>

DueDays == 25

MinPct == 3

MinFloor == 2500

CloseStatement(card_account_id, period_end) ==
  /\ Idle
  /\ LET res == close_statement(statements[moduleDir], accounts[moduleDir],
                                card_account_id, period_end, DueDays, MinPct,
                                MinFloor)
     IN  /\ statements' = [statements EXCEPT ![moduleDir] = res.statements]
         /\ Ends(Ended("close_statement", username, card_account_id, NoText,
                       0, period_end, res.raised, res.nid))
  /\ UNCHANGED <<username, moduleDir, accounts, opening, payments, sessions, cache, transactions,
                 recurring_expenses, recurring_incomes, debts, rules, today,
                 pc, frame>>

RecordCcPayment(stmt_id, from_id, x, when) ==
  /\ Idle
  /\ LET res == record_cc_payment(statements[moduleDir], Ledger, stmt_id,
                                  from_id, x, "GBP", when, NoText)
     IN  /\ SetLedger(res.ledger)
         /\ statements' = [statements EXCEPT ![moduleDir] = res.statements]
         /\ payments' = IF res.raised # "" THEN payments
                        ELSE [payments EXCEPT ![moduleDir] =
                                Append(@, [stmt_id |-> stmt_id, amount |-> x])]
         /\ Ends(Ended("record_cc_payment", username, from_id, NoText, x,
                       when, res.raised, stmt_id))
  /\ UNCHANGED <<username, moduleDir, opening, sessions, cache, recurring_expenses,
                 recurring_incomes, debts, rules, today, pc, frame>>

ApplyRules(dry_run) ==
  /\ Idle
  /\ LET res == apply_rules_to_transactions(transactions[moduleDir],
                                            rules[moduleDir], dry_run)
     IN  /\ transactions' = [transactions EXCEPT ![moduleDir] = res.transactions]
         /\ Ends([Ended("apply_rules_to_transactions", username, NoText,
                        NoText, 0, 0, "", res.changed)
                    EXCEPT !.dry_run = dry_run,
                           !.again = (last.op = "apply_rules_to_transactions"
                                      /\ ~last.dry_run)])
  /\ UNCHANGED <<username, moduleDir, accounts, opening, payments, sessions, cache, recurring_expenses,
                 recurring_incomes, debts, statements, rules, today, pc, frame>>

\* ------------------------------------------- the recurring processors
\* process_recurring_expenses ("expense") and process_recurring_incomes
\* ("income") differ in the file they read and in the posting they make
RecFile(kind) ==
  IF kind = "expense" THEN recurring_expenses[username]
  ELSE recurring_incomes[username]

RecOp(kind) ==
  IF kind = "expense" THEN "process_recurring_expenses"
  ELSE "process_recurring_incomes"

SetRecFile(kind, rows) ==
  IF kind = "expense"
  THEN /\ recurring_expenses' = [recurring_expenses EXCEPT ![username] = rows]
       /\ UNCHANGED recurring_incomes
  ELSE /\ recurring_incomes' = [recurring_incomes EXCEPT ![username] = rows]
       /\ UNCHANGED recurring_expenses

\* the file is read and the next_due_date column parsed; an empty file ends
\* the handler at once
RecStart(kind) ==
  /\ Idle
  /\ LET file == RecFile(kind)
         rec == [i \in DOMAIN file |->
                   [file[i] EXCEPT !.next_due_date = ToDatetime(@)]]
     IN  IF file = <<>>
         THEN /\ Ends(Ended(RecOp(kind), username, NoText, NoText, 0, today,
                            "", 0))
              /\ UNCHANGED <<pc, frame>>
         ELSE /\ pc' = "rec"
              /\ frame' = [NoFrame EXCEPT !.kind = kind, !.rec = rec, !.i = 1,
                                          !.nd = rec[1].next_due_date]
              /\ Ends(NoOp)
  /\ UNCHANGED <<username, moduleDir, accounts, opening, payments, sessions, cache, transactions,
                 recurring_expenses, recurring_incomes, debts, statements,
                 rules, today>>

\* one pass of `while nd <= today`: post at nd, then advance nd
RecPost ==
  /\ pc = "rec"
  /\ frame.i <= Len(frame.rec)
  /\ ~IsNa(frame.nd) /\ Due(frame.nd, today)
  /\ Len(transactions[moduleDir]) < MaxPosts
  /\ LET row == frame.rec[frame.i]
     IN  /\ SetLedger(IF frame.kind = "expense"
                      THEN post_expense(Ledger, row.account_id, row.amount,
                             row.currency, frame.nd, row.type, row.note,
                             "recurring_expenses", row.id)
                      ELSE post_income(Ledger, row.account_id, row.amount,
                             row.currency, frame.nd, row.type, row.note,
                             "recurring_incomes", row.id))
         /\ frame' = [frame EXCEPT !.nd = time_calculation(frame.nd,
                                                           row.frequency)]
  /\ UNCHANGED <<username, moduleDir, opening, payments, sessions, cache, recurring_expenses,
                 recurring_incomes, debts, statements, rules, today, pc, last,
                 pre, ops>>

\* the row is skipped (no date) or its loop is over: on to the next row
RecNext ==
  /\ pc = "rec"
  /\ frame.i <= Len(frame.rec)
  /\ IsNa(frame.nd) \/ ~Due(frame.nd, today)
  /\ LET rec == IF IsNa(frame.nd) THEN frame.rec
                ELSE [frame.rec EXCEPT ![frame.i].next_due_date = frame.nd]
     IN  frame' = [frame EXCEPT
                     !.rec = rec, !.i = frame.i + 1,
                     !.nd = IF frame.i + 1 <= Len(rec)
                            THEN rec[frame.i + 1].next_due_date ELSE NaT]
  /\ UNCHANGED <<username, moduleDir, accounts, opening, payments, sessions, cache, transactions,
                 recurring_expenses, recurring_incomes, debts, statements,
                 rules, today, pc, last, pre, ops>>

\* rec.to_csv after the last row
RecSave ==
  /\ pc = "rec"
  /\ frame.i > Len(frame.rec)
  /\ SetRecFile(frame.kind,
       [i \in DOMAIN frame.rec |->
          [frame.rec[i] EXCEPT !.next_due_date = DateCell(@)]])
  /\ pc' = "idle"
  /\ frame' = NoFrame
  /\ last' = [Ended(RecOp(frame.kind), username, NoText, NoText, 0, today, "", 1)
                EXCEPT !.failed = frame.failed]
  /\ UNCHANGED <<username, moduleDir, accounts, opening, payments, sessions, cache, transactions, debts,
                 statements, rules, today, pre, ops>>

\* a failure after which the schedule moves on to its next occurrence
RecFail_Skips ==
  /\ pc = "rec"
  /\ frame.i <= Len(frame.rec)
  /\ ~IsNa(frame.nd) /\ Due(frame.nd, today)
  /\ LET row == frame.rec[frame.i]
         rec == [frame.rec EXCEPT ![frame.i].next_due_date =
                   time_calculation(frame.nd, row.frequency)]
     IN  /\ accounts' = accounts
         /\ frame' = [frame EXCEPT
                         !.rec = rec, !.i = frame.i + 1,
                         !.nd = IF frame.i + 1 <= Len(rec)
                                THEN rec[frame.i + 1].next_due_date ELSE NaT,
                         !.failed = @ \cup {[i |-> frame.i, nd |-> frame.nd]}]
  /\ UNCHANGED <<username, moduleDir, opening, payments, sessions, cache, transactions,
                 recurring_expenses, recurring_incomes, debts, statements,
                 rules, today, pc, last, pre, ops>>

\* the posting of the occurrence at nd raises: the warning is shown, the
\* loop of this row is left and nd is stored as it stands.  A posting is
\* save_accounts and then _append_tx, so it can raise before anything is
\* written or after the accounts file has been
RecFail ==
  /\ pc = "rec"
  /\ frame.i <= Len(frame.rec)
  /\ ~IsNa(frame.nd) /\ Due(frame.nd, today)
  /\ LET row == frame.rec[frame.i]
         delta == IF frame.kind = "expense" THEN 0 - Abs(row.amount)
                  ELSE Abs(row.amount)
         rec == [frame.rec EXCEPT ![frame.i].next_due_date = frame.nd]
     IN  /\ \E saved \in BOOLEAN :
               accounts' = IF saved
                           THEN [accounts EXCEPT ![moduleDir] =
                                   ApplyDeltaToAccount(@, row.account_id, delta)]
                           ELSE accounts
         /\ frame' = [frame EXCEPT
                         !.rec = rec, !.i = frame.i + 1,
                         !.nd = IF frame.i + 1 <= Len(rec)
                                THEN rec[frame.i + 1].next_due_date ELSE NaT,
                         !.failed = @ \cup {[i |-> frame.i, nd |-> frame.nd]}]
  /\ UNCHANGED <<username, moduleDir, opening, payments, sessions, cache, transactions,
                 recurring_expenses, recurring_incomes, debts, statements,
                 rules, today, pc, last, pre, ops>>

\* rec.to_csv raises: the exception leaves the processor and
\* run_processors_safely shows it in the sidebar
RecSaveFails ==
  /\ pc = "rec"
  /\ frame.i > Len(frame.rec)
  /\ pc' = "idle"
  /\ frame' = NoFrame
  /\ last' = [Ended(RecOp(frame.kind), username, NoText, NoText, 0, today,
                    "OSError", 0)
                EXCEPT !.failed = frame.failed]
  /\ UNCHANGED <<username, moduleDir, accounts, opening, payments, sessions, cache, transactions,
                 recurring_expenses, recurring_incomes, debts, statements,
                 rules, today, pre, ops>>

\* midnight passes
Tick ==
  /\ pc = "idle"
  /\ today < MaxDay
  /\ today' = today + 1
  /\ UNCHANGED <<username, moduleDir, accounts, opening, payments, sessions, cache, transactions,
                 recurring_expenses, recurring_incomes, debts, statements,
                 rules, pc, frame, last, pre, ops>>

\* main(): another user's session is served by the same process; the modules
\* are already imported, so their path constants stay as they are
Login(u) ==
  /\ Idle
  /\ u # username
  /\ username' = u
  /\ Ends(Ended("login", u, NoText, NoText, 0, today, "", 0))
  /\ UNCHANGED <<moduleDir, accounts, opening, payments, sessions, cache, transactions,
                 recurring_expenses, recurring_incomes, debts, statements,
                 rules, today, pc, frame>>

\* ------------------------------------------------------ the ledger alone
AccountIds == {IdA, IdC, IdX}

Amounts == {500, 0 - 500}

\* 2024-03-01
Day0 == FromYMD(2024, 3, 1)

Init == InitWith(<<>>, <<>>, <<>>, Day0)

NextLedger ==
  \/ \E a \in AccountIds, x \in Amounts : PostIncome(a, x, today, CatSalary, NoText, "manual_income")
  \/ \E a \in AccountIds, x \in Amounts : PostExpense(a, x, today, CatFood, NoText, "manual_expense")
  \/ \E a \in AccountIds, b \in AccountIds, x \in Amounts, c \in {"GBP", "EUR"} :
        Transfer(a, b, x, c, today)
  \/ AccrueCreditCardInterest(today)

SpecLedger == Init /\ [][NextLedger]_vars

\* --------------------------------------------------- every operation
InitAll ==
  InitWith(<<Schedule(1, CatFood, 500, "Monthly", Day0, IdA)>>,
           <<Schedule(1, CatSalary, 700, "Weekly", Day0 + 1, IdA)>>,
           <<>>, Day0)

\* the forms post with their own ref_table and a category; the CSV import
\* posts with neither
RefOf(category, form) == IF category = NoText THEN "" ELSE form

Next ==
  \/ \E a \in {IdA, IdC}, x \in {500, 0}, cat \in {NoText, CatSalary} :
        PostIncome(a, x, today, cat, NoteShop, RefOf(cat, "manual_income"))
  \/ \E a \in {IdA, IdC}, cat \in {NoText, CatFood} :
        PostExpense(a, 500, today, cat, NoteShop, RefOf(cat, "manual_expense"))
  \/ \E a \in {IdA, IdC}, b \in {IdA, IdC}, x \in {500, 0 - 500} :
        Transfer(a, b, x, "GBP", today)
  \/ AccrueCreditCardInterest(today)
  \/ \E d \in {NoText, IdB}, x \in {500, 0}, id \in {0, 1, 9} :
        PayDebt(IdA, d, x, today, id)
  \/ AccrueLoanInterestAll(today)
  \/ \E c \in {IdC, IdA, IdX} : CloseStatement(c, today)
  \/ \E id \in {1, 9}, x \in {500, 0 - 500} : RecordCcPayment(id, IdA, x, today)
  \/ \E dry \in BOOLEAN : ApplyRules(dry)
  \/ \E kind \in {"expense", "income"} : RecStart(kind)
  \/ RecPost
  \/ RecNext
  \/ RecSave

Spec == InitAll /\ [][Next]_vars


\* ------------------------------------------- the recurring processors
FrequencyCells == Frequencies \cup {"Fortnightly"}

\* 2024-01-31, 2024-02-29, 2024-03-01, 2024-03-02
DueCells == {31, 60, 61, 62}

FirstRows ==
  {Schedule(1, CatFood, 500, f, d, IdA) : f \in FrequencyCells, d \in DueCells}
  \cup {Schedule(1, CatFood, 500, "Monthly", d, IdA) : d \in {EmptyCell, GarbageText}}

SecondRows ==
  {Schedule(2, CatFood, 700, f, d, IdC) :
     f \in {"Daily", "Monthly"}, d \in {60, 62, GarbageText}}

ExpenseFiles ==
  {<<r>> : r \in FirstRows} \cup {<<r, q>> : r \in FirstRows, q \in SecondRows}

IncomeFiles ==
  {<<>>, <<Schedule(1, CatSalary, 900, "Bi-Weekly", 47, IdA)>>}

InitRecur ==
  \E e \in ExpenseFiles, i \in IncomeFiles : InitWith(e, i, <<>>, Day0)

NextRecur ==
  \/ \E kind \in {"expense", "income"} : RecStart(kind)
  \/ RecPost
  \/ RecNext
  \/ RecSave
  \/ Tick

SpecRecur == InitRecur /\ [][NextRecur]_vars

\* ------------------------------ the recurring processors, with failures
\* 2024-01-31, 2024-02-29
FailingFirstRows ==
  {Schedule(1, CatFood, 500, f, d, IdA) :
     f \in {"Monthly", "Bi-Weekly"}, d \in {31, 60}}

FailingSecondRows == {Schedule(2, CatFood, 700, "Monthly", 60, IdC)}

FailingFiles ==
  {<<r>> : r \in FailingFirstRows}
  \cup {<<r, q>> : r \in FailingFirstRows, q \in FailingSecondRows}

InitFailing ==
  \E e \in FailingFiles, i \in IncomeFiles : InitWith(e, i, <<>>, Day0)

NextFailing ==
  \/ \E kind \in {"expense", "income"} : RecStart(kind)
  \/ RecPost
  \/ RecFail
  \/ RecNext
  \/ RecSave
  \/ RecSaveFails
  \/ Tick

SpecFailing == InitFailing /\ [][NextFailing]_vars

\* ------------------------------------------------- sessions of two users
InitUsers ==
  InitWith(<<Schedule(1, CatFood, 500, "Monthly", Day0, IdA)>>, <<>>,
           <<Schedule(1, CatFood, 300, "Monthly", Day0, IdA)>>, Day0)

NextUsers ==
  \/ \E u \in Users : Login(u)
  \/ \E a \in {IdA, IdC}, x \in {500, 700} :
        PostIncome(a, x, today, CatSalary, NoText, "manual_income")
  \/ \E a \in {IdA, IdC}, x \in {500, 700} :
        PostExpense(a, x, today, CatFood, NoText, "manual_expense")
  \/ \E a \in {IdA, IdC}, b \in {IdA, IdC}, x \in {500, 700} :
        a # b /\ Transfer(a, b, x, "GBP", today)
  \/ AccrueCreditCardInterest(today)
  \/ \E kind \in {"expense", "income"} : RecStart(kind)
  \/ RecPost
  \/ RecNext
  \/ RecSave

SpecUsers == InitUsers /\ [][NextUsers]_vars

\* ------------------------------------- ledger operations, write by write
\* Each public operation of ledger.py makes its file writes one after the
\* other: save_accounts, then one _append_tx per row (post_income,
\* post_expense, transfer), or one _append_tx per card and save_accounts at
\* the end (accrue_credit_card_interest).  A write can raise; the exception
\* leaves the operation.
SaveWrite == [do |-> "save", row |-> TxRow(0, "", 0, "", NoText, NoText, NoText, "", 0, NoText)]

AppendWrite(row) == [do |-> "append", row |-> row]

Begin(op, acc, script) ==
  /\ Idle
  /\ Ends(IF script = <<>> THEN op ELSE NoOp)
  /\ pc' = IF script = <<>> THEN "idle" ELSE "io"
  /\ frame' = IF script = <<>> THEN NoFrame
              ELSE [NoFrame EXCEPT !.op = op, !.acc = acc, !.script = script]
  /\ UNCHANGED <<username, moduleDir, accounts, opening, payments, sessions, cache, transactions,
                 recurring_expenses, recurring_incomes, debts, statements,
                 rules, today>>

BeginPostIncome(a, x, when) ==
  Begin(Ended("post_income", username, a, NoText, x, when, "", 0),
        ApplyDeltaToAccount(accounts[moduleDir], a, Abs(x)),
        <<SaveWrite,
          AppendWrite(IncomeRow(a, x, "GBP", when, CatSalary, NoText,
                                "manual_income", 0))>>)

BeginPostExpense(a, x, when) ==
  Begin(Ended("post_expense", username, a, NoText, x, when, "", 0),
        ApplyDeltaToAccount(accounts[moduleDir], a, 0 - Abs(x)),
        <<SaveWrite,
          AppendWrite(ExpenseRow(a, x, "GBP", when, CatFood, NoText,
                                 "manual_expense", 0))>>)

BeginTransfer(a, b, x, when) ==
  Begin(Ended("transfer", username, a, b, x, when, "", 0),
        ApplyDeltaToAccount(
          ApplyDeltaToAccount(accounts[moduleDir], a, 0 - Abs(x)), b, Abs(x)),
        <<SaveWrite,
          AppendWrite(TransferOutRow(a, b, x, "GBP", when, NoText)),
          AppendWrite(TransferInRow(a, b, x, "GBP", when, NoText))>>)

BeginAccrueCreditCardInterest(when) ==
  LET done == accrue_credit_card_interest(Ledger, when)
      rows == SubSeq(done.transactions, Len(Ledger.transactions) + 1,
                     Len(done.transactions))
  IN  Begin(Ended("accrue_credit_card_interest", username, NoText, NoText, 0,
                  when, "", 0),
            done.accounts,
            IF rows = <<>> THEN <<>>
            ELSE [i \in DOMAIN rows |-> AppendWrite(rows[i])] \o <<SaveWrite>>)

\* the next write of the operation in progress succeeds
WriteStep ==
  /\ pc = "io"
  /\ LET w == Head(frame.script)
         rest == Tail(frame.script)
     IN  /\ IF w.do = "save"
            THEN /\ accounts' = [accounts EXCEPT ![moduleDir] = frame.acc]
                 /\ UNCHANGED transactions
            ELSE /\ transactions' = [transactions EXCEPT ![moduleDir] =
                                        AppendTx(@, w.row)]
                 /\ UNCHANGED accounts
         /\ IF rest = <<>>
            THEN pc' = "idle" /\ frame' = NoFrame /\ last' = frame.op
            ELSE pc' = pc /\ frame' = [frame EXCEPT !.script = rest]
                 /\ last' = last
  /\ UNCHANGED <<username, moduleDir, opening, payments, sessions, cache, recurring_expenses,
                 recurring_incomes, debts, statements, rules, today, pre, ops>>

\* the next write raises (the disk is full, the file is locked, ...)
WriteFails ==
  /\ pc = "io"
  /\ pc' = "idle"
  /\ frame' = NoFrame
  /\ last' = [frame.op EXCEPT !.raised = "OSError"]
  /\ UNCHANGED <<username, moduleDir, accounts, opening, payments, sessions, cache, transactions,
                 recurring_expenses, recurring_incomes, debts, statements,
                 rules, today, pre, ops>>

NextWrites ==
  \/ \E a \in {IdA, IdB, IdC}, x \in {500, 700} : BeginPostIncome(a, x, today)
  \/ \E a \in {IdA, IdB, IdC}, x \in {500, 700} : BeginPostExpense(a, x, today)
  \/ \E a \in {IdA, IdB, IdC}, b \in {IdA, IdB, IdC}, x \in {500, 700} :
        a # b /\ BeginTransfer(a, b, x, today)
  \/ BeginAccrueCreditCardInterest(today)
  \/ WriteStep
  \/ WriteFails

SpecWrites == Init /\ [][NextWrites]_vars

\* ------------------------------------------------ files chosen at start
\* the first user's files as given, everything else as in InitWith
InitFiles(accs, dbs, sts, paid, rls, txs, day) ==
  /\ username = "u1"
  /\ moduleDir = "u1"
  /\ accounts = PerUser(accs, AccountsOfU2)
  /\ opening = PerUser(Balances(accs), Balances(AccountsOfU2))
  /\ transactions = PerUser(txs, <<>>)
  /\ recurring_expenses = PerUser(<<>>, <<>>)
  /\ recurring_incomes = PerUser(<<>>, <<>>)
  /\ debts = PerUser(dbs, <<>>)
  /\ statements = PerUser(sts, <<>>)
  /\ rules = PerUser(rls, <<>>)
  /\ today = day
  /\ pc = "idle"
  /\ frame = NoFrame
  /\ last = NoOp
  /\ pre = Files
  /\ ops = 0
  /\ payments = PerUser(paid, <<>>)
  /\ sessions = [s \in Sessions |-> NoPosting]
  /\ cache = NoCache

\* ------------------------------------------------------------ the debts
\* the account a debt can be linked to, in credit or overdrawn
LinkedBalances == {2500, 0 - 2500}

AccountsWithLoan(b) ==
  <<Account(1, IdA, "Current", 10000, 0), Account(2, IdB, "Other", b, 0)>>

\* (current_balance, apr) of the first debt row
DebtTerms == {<<300, 12>>, <<50000, 12>>, <<50000, 0>>, <<0, 12>>}

FirstDebts ==
  {Debt(1, t, a, term[1], term[2]) :
     t \in {"loan", "other", "credit card"}, a \in {NoText, IdB, IdX},
     term \in DebtTerms}

SecondDebts == {Debt(2, "overdraft", a, 50000, 12) : a \in {NoText, IdB}}

DebtFiles ==
  {<<d>> : d \in FirstDebts} \cup {<<d, e>> : d \in FirstDebts, e \in SecondDebts}

InitDebts ==
  \E b \in LinkedBalances, D \in DebtFiles :
     InitFiles(AccountsWithLoan(b), D, <<>>, <<>>, <<>>, <<>>, Day0)

NextDebts ==
  \/ \E id \in {0, 1, 9} : PayDebt(IdA, NoText, 500, today, id)
  \/ PayDebt(IdA, NoText, 0, today, 1)
  \/ PayDebt(IdA, IdB, 500, today, 1)
  \/ AccrueLoanInterestAll(today)

SpecDebts == InitDebts /\ [][NextDebts]_vars

\* ------------------------------------------------------------ the cards
\* (balance, apr) of the card: a usual debt, the debt of the worked example
\* of close_statement, two cents, nothing, a card in credit, a card free of
\* interest
CardTerms ==
  {<<100000, 24>>, <<30000, 24>>, <<2, 24>>, <<0, 24>>, <<0 - 200, 24>>,
   <<30000, 0>>}

AccountsWithCards(term, more) ==
  <<Account(1, IdA, "Current", 10000, 0), Account(2, IdB, "Savings", 2500, 5),
    Account(3, IdC, "Credit Card", term[1], term[2])>>
  \o (IF more THEN <<Account(4, IdD, "Credit Card", 60000, 18)>> ELSE <<>>)

Statement(id, card_account_id, period_end, bal, apr, paid) ==
  [id |-> id, card_account_id |-> card_account_id, period_end |-> period_end,
   statement_balance |-> bal, apr_at_cycle |-> apr,
   min_due |-> default_min_due(bal, MinPct, MinFloor),
   due_date |-> AddDays(period_end, DueDays), paid_amount |-> paid,
   paid_date |-> IF paid = 0 THEN EmptyCell ELSE period_end + 1,
   carried_balance |-> IF paid = 0 THEN bal ELSE Max2(0, bal - paid)]

\* no statement yet, or last month's statement with one payment made
StatementFiles ==
  {[statements |-> <<>>, paid |-> <<>>],
   [statements |-> <<Statement(1, IdC, 31, 30000, 24, 500)>>,
    paid |-> <<[stmt_id |-> 1, amount |-> 500]>>]}

InitCards ==
  \E term \in CardTerms, more \in BOOLEAN, f \in StatementFiles :
     InitFiles(AccountsWithCards(term, more), <<>>, f.statements, f.paid,
               <<>>, <<>>, Day0)

NextCards ==
  \/ AccrueCreditCardInterest(today)
  \/ \E c \in {IdC, IdA, IdX} : CloseStatement(c, today)
  \/ \E id \in {1, 2, 9}, x \in {500, 40000} : RecordCcPayment(id, IdA, x, today)
  \/ Transfer(IdA, IdC, 500, "GBP", today)

SpecCards == InitCards /\ [][NextCards]_vars

\* ------------------------------------------------------------ the rules
Blank == <<" ">>

\* the rule a user adds or edits first: the Add rule form asks for a category
\* and a text, the table editor below it asks for neither
FirstRules ==
  {Rule(1, active, priority, kind, category, "note", contains, cs) :
     active \in BOOLEAN, priority \in {100, 200}, kind \in {"Expense", ""},
     category \in {CatFood, NoText}, contains \in {<<"t", "a">>, NoText},
     cs \in BOOLEAN}

\* (match_field, contains, case_sensitive) of a second rule
SecondTerms ==
  {<<"note", <<"T">>, TRUE>>, <<"account_id", <<"a">>, FALSE>>,
   <<"category", Blank, FALSE>>, <<"", <<"b">>, FALSE>>}

SecondRules ==
  {Rule(2, TRUE, 100, "Income", CatSalary, t[1], t[2], t[3]) : t \in SecondTerms}

RuleFiles ==
  {<<>>} \cup {<<r>> : r \in FirstRules}
  \cup {<<r, q>> : r \in FirstRules, q \in SecondRules}
  \cup {<<q, r>> : r \in FirstRules, q \in SecondRules}

\* rows as the CSV import leaves them (no category), as a hand-edited file
\* has them (a blank) and as the forms leave them
ImportedRow(category, note) ==
  TxRow(Day0, "income", 500, "GBP", IdA, NoText, category, "", 0, note)

TxFiles ==
  {<<>>}
  \cup {AppendTx(<<>>, ImportedRow(c, n)) :
          c \in {NoText, Blank, CatFood}, n \in {NoteShop, CatSalary}}
  \cup {AppendTx(AppendTx(<<>>, ImportedRow(c, n)),
                 TxRow(Day0, "expense", 700, "GBP", IdC, NoText, NoText, "", 0,
                       NoteShop)) :
          c \in {NoText, Blank, CatFood}, n \in {NoteShop, CatSalary}}

InitRules ==
  \E R \in RuleFiles, T \in TxFiles :
     InitFiles(AccountsOfU1, <<>>, <<>>, <<>>, R, T, Day0)

NextRules == \E dry \in BOOLEAN : ApplyRules(dry)

SpecRules == InitRules /\ [][NextRules]_vars

\* ------------------------------------- two sessions of one user at once
\* Streamlit serves each browser session in a thread of the same process.
\* post_income is taken step by step in each session: load_accounts and the
\* change in memory, the to_csv of save_accounts, its cache clear, and the
\* four file accesses of _append_tx (the header check reads the whole log
\* and writes it back, _next_seq_id reads the ids, to_csv appends the row).

\* a save that leaves the file as it found it
save_accounts_KeepsFile(file, df) == file

\* to_csv(path): the table in memory replaces the file, whole
save_accounts(file, df) == df

SavesDone == Cardinality({s \in Sessions : sessions[s].saved_at > 0})

RaceFrame ==
  UNCHANGED <<username, moduleDir, opening, recurring_expenses,
              recurring_incomes, debts, statements, rules, today, pc, frame,
              last, pre, ops, payments>>

Step(s, from, posting) ==
  /\ pc = "idle"
  /\ sessions[s].pc = from
  /\ sessions' = [sessions EXCEPT ![s] = posting]
  /\ RaceFrame

RaceLoad(s, a, x) ==
  LET table == IF cache.full THEN cache.table ELSE accounts[moduleDir]
      at == IF cache.full THEN cache.at ELSE SavesDone
  IN  /\ Step(s, "idle",
              [NoPosting EXCEPT !.pc = "loaded", !.account_id = a, !.amount = x,
                                !.acc = ApplyDeltaToAccount(table, a, Abs(x)),
                                !.loaded_at = at])
      /\ cache' = [full |-> TRUE, table |-> table, at |-> at]
      /\ UNCHANGED <<accounts, transactions>>

RaceSave(s) ==
  /\ Step(s, "loaded", [sessions[s] EXCEPT !.pc = "written",
                                           !.saved_at = SavesDone + 1])
  /\ accounts' = [accounts EXCEPT ![moduleDir] = save_accounts(@, sessions[s].acc)]
  /\ UNCHANGED <<transactions, cache>>

RaceClear(s) ==
  /\ Step(s, "written", [sessions[s] EXCEPT !.pc = "cleared"])
  /\ cache' = NoCache
  /\ UNCHANGED <<accounts, transactions>>

RaceHeaderRead(s) ==
  /\ Step(s, "cleared", [sessions[s] EXCEPT !.pc = "read",
                                            !.log = transactions[moduleDir]])
  /\ UNCHANGED <<accounts, transactions, cache>>

RaceHeaderWrite(s) ==
  /\ Step(s, "read", [sessions[s] EXCEPT !.pc = "ensured"])
  /\ transactions' = [transactions EXCEPT ![moduleDir] = sessions[s].log]
  /\ UNCHANGED <<accounts, cache>>

RaceNextId(s) ==
  /\ Step(s, "ensured",
          [sessions[s] EXCEPT !.pc = "numbered",
                              !.next_id = NextSeqId(transactions[moduleDir])])
  /\ UNCHANGED <<accounts, transactions, cache>>

RaceAppend(s) ==
  /\ Step(s, "numbered", [sessions[s] EXCEPT !.pc = "done"])
  /\ transactions' =
       [transactions EXCEPT ![moduleDir] =
          Append(@, [IncomeRow(sessions[s].account_id, sessions[s].amount,
                               "GBP", today, CatSalary, NoText,
                               "manual_income", 0)
                       EXCEPT !.id = sessions[s].next_id])]
  /\ UNCHANGED <<accounts, cache>>

NextRace ==
  \/ \E s \in Sessions, a \in {IdA, IdB}, x \in {500, 700} : RaceLoad(s, a, x)
  \/ \E s \in Sessions : RaceSave(s)
  \/ \E s \in Sessions : RaceClear(s)
  \/ \E s \in Sessions : RaceHeaderRead(s)
  \/ \E s \in Sessions : RaceHeaderWrite(s)
  \/ \E s \in Sessions : RaceNextId(s)
  \/ \E s \in Sessions : RaceAppend(s)

SpecRace == Init /\ [][NextRace]_vars

\* ------------------------------------------------------ the Add account form
\* the submit branch of add_account: a blank Account ID is refused, any
\* other is appended as typed with the next id of the file
add_account(acc, account_id, account_type, balance, apr) ==
  IF Strip(account_id) = NoText THEN acc
  ELSE Append(acc, Account(NextSeqId(acc), account_id, account_type, balance, apr))

AddAccount(account_id, account_type, balance, apr) ==
  /\ Idle
  /\ LET acc == add_account(accounts[username], account_id, account_type,
                            balance, apr)
         added == acc # accounts[username]
     IN  /\ accounts' = [accounts EXCEPT ![username] = acc]
         /\ opening' = [opening EXCEPT ![username] =
                          IF added THEN Append(@, balance) ELSE @]
         /\ cache' = IF added THEN NoCache ELSE cache
         /\ Ends(Ended("add_account", username, account_id, NoText, balance,
                       today, IF added THEN "" ELSE "error", Len(acc)))
  /\ UNCHANGED <<username, moduleDir, payments, sessions, transactions,
                 recurring_expenses, recurring_incomes, debts, statements,
                 rules, today, pc, frame>>

NextAccounts ==
  \/ \E a \in {IdA, IdD, Blank, NoText}, t \in {"Savings", "Credit Card"}, b \in {0, 4000} :
        AddAccount(a, t, b, 0)
  \/ \E a \in {IdA, IdD} : PostIncome(a, 500, today, CatSalary, NoText, "manual_income")
  \/ \E a \in {IdA, IdD} : PostExpense(a, 700, today, CatFood, NoText, "manual_expense")

SpecAccounts == Init /\ [][NextAccounts]_vars

\* ------------------------------------------------- the minimum payments
\* the Debts page is opened
GetDebts ==
  /\ Idle
  /\ Ends(Ended("get_debts", username, NoText, NoText, 0, today, "",
                get_debts(debts[moduleDir], accounts[moduleDir])))
  /\ UNCHANGED <<username, moduleDir, accounts, opening, payments, sessions, cache, transactions,
                 recurring_expenses, recurring_incomes, debts, statements,
                 rules, today, pc, frame>>

\* balances owed, in cents: below, at and above the balance whose three per
\* cent is the floor, the two worked examples, and a card in credit; three
\* per cent of each is not half a cent away from a whole cent, where binary
\* floating point decides the rounding
OwedBalances ==
  {0, 2, 30010, 50000, 83333, 83334, 83400, 100000, 123456, 200000, 0 - 200}

ExplicitMins == {0, 1000, 4000}

AccountsOwing(b) ==
  <<Account(1, IdA, "Current", 10000, 0), Account(2, IdC, "Credit Card", b, 24)>>

DebtOwing(b, m, linked) ==
  <<[Debt(1, "loan", IF linked THEN IdC ELSE NoText, b, 12) EXCEPT !.min_payment = m]>>

InitMinimum ==
  \E b \in OwedBalances, m \in ExplicitMins, linked \in BOOLEAN :
     InitFiles(AccountsOwing(b), DebtOwing(IF linked THEN 40000 ELSE b, m, linked),
               <<>>, <<>>, <<>>, <<>>, Day0)

NextMinimum ==
  \/ GetDebts
  \/ CloseStatement(IdC, today)
  \/ PostExpense(IdC, 700, today, CatFood, NoText, "manual_expense")

SpecMinimum == InitMinimum /\ [][NextMinimum]_vars

\* ------------------------------------------------ one advance of a date
\* days at the ends of long and short months, in and after the leap year,
\* and days inside a month
AdvancedDays ==
  {FromYMD(2024, 1, 15), FromYMD(2024, 1, 31), FromYMD(2024, 2, 28),
   FromYMD(2024, 2, 29), FromYMD(2024, 3, 31), FromYMD(2024, 4, 30),
   FromYMD(2024, 8, 31), FromYMD(2024, 10, 31), FromYMD(2024, 11, 30),
   FromYMD(2024, 12, 1), FromYMD(2024, 12, 31), FromYMD(2025, 1, 31),
   FromYMD(2025, 2, 28), FromYMD(2025, 12, 31)}

\* a schedule that is due today for the first time
InitAdvance ==
  \E f \in Frequencies, d \in AdvancedDays :
     InitWith(<<Schedule(1, CatFood, 500, f, d, IdA)>>, <<>>, <<>>, d)

NextAdvance ==
  \/ \E kind \in {"expense", "income"} : RecStart(kind)
  \/ RecPost
  \/ RecNext
  \/ RecSave

SpecAdvance == InitAdvance /\ [][NextAdvance]_vars

\* ----------------------------------------------------------- CSV import
\* _tx_key: the text that is hashed, field by field
tx_key(date, amount, account_id, note) ==
  <<date, amount, account_id, SubSeq(note, 1, Min2(Len(note), 60))>>

\* _known_keys(_read_tx_df()): the keys of the rows of the log, each with
\* the amount that its amount cell holds
known_keys(txs) ==
  {tx_key(txs[i].date, txs[i].amount, txs[i].account_id, txs[i].note) :
     i \in DOMAIN txs}

\* the uploaded rows that the page offers to commit: dated, not zero, and
\* with a key (on the signed amount) that no row of the log has
new_rows(txs, rows, dest) ==
  LET usable(r) == ~IsNa(ToDatetime(r.date)) /\ r.amount # 0
      fresh(r) == tx_key(r.date, r.amount, dest, r.note) \notin known_keys(txs)
  IN  SelectSeq(SelectSeq(rows, usable), fresh)

\* the loop of the Commit button from row i on
RECURSIVE CommitFrom(_, _, _, _, _)
CommitFrom(L, rows, i, dest, currency) ==
  IF i > Len(rows) THEN L
  ELSE CommitFrom(
         IF rows[i].amount > 0
         THEN post_income(L, dest, rows[i].amount, currency, rows[i].date,
                          NoText, rows[i].note, "", 0)
         ELSE post_expense(L, dest, Abs(rows[i].amount), currency,
                           rows[i].date, NoText, rows[i].note, "", 0),
         rows, i + 1, dest, currency)

\* the Import tab with a file uploaded and mapped: the Commit button is
\* there only if some row is new
Import(rows, dest, run_rules) ==
  /\ Idle
  /\ LET new == new_rows(transactions[moduleDir], rows, dest)
         L == CommitFrom(Ledger, new, 1, dest, "GBP")
         txs == IF run_rules /\ new # <<>>
                THEN apply_rules_to_transactions(L.transactions,
                                                 rules[moduleDir], FALSE).transactions
                ELSE L.transactions
     IN  /\ SetLedger([accounts |-> L.accounts, transactions |-> txs])
         /\ Ends([Ended("import", username, dest, NoText, 0, today, "", Len(new))
                    EXCEPT !.before = rows,
                           !.again = (/\ last.op = "import"
                                      /\ last.before = rows
                                      /\ last.account_id = dest)])
  /\ UNCHANGED <<username, moduleDir, opening, payments, sessions, cache, recurring_expenses,
                 recurring_incomes, debts, statements, rules, today, pc, frame>>

Uploaded(date, amount, note) == [date |-> date, amount |-> amount, note |-> note]

\* bank statements: money in, money out, a line without an amount and a
\* line without a date
UploadedFiles ==
  {<<Uploaded(60, 500, NoteShop)>>,
   <<Uploaded(60, 0 - 500, NoteShop)>>,
   <<Uploaded(60, 500, NoteShop), Uploaded(61, 0 - 700, NoText)>>,
   <<Uploaded(61, 700, NoText), Uploaded(61, 0, NoteShop)>>,
   <<Uploaded(EmptyCell, 500, NoteShop), Uploaded(59, 900, NoteDebt)>>}

NextImport ==
  \/ \E rows \in UploadedFiles, dest \in {IdA, IdC}, run_rules \in BOOLEAN :
        Import(rows, dest, run_rules)
  \/ \E a \in {IdA, IdC} : PostIncome(a, 500, 60, CatSalary, NoteShop, "manual_income")

SpecImport == Init /\ [][NextImport]_vars

\* ================================================================ claims
FirstIndex(rows, account_id) ==
  LET idx == {i \in DOMAIN rows : rows[i].account_id = account_id}
  IN  IF idx = {} THEN 0 ELSE MinOf(idx)

\* the rows appended to the ledger's log since the last operation started
NewRows ==
  SubSeq(transactions[moduleDir], Len(pre.transactions[moduleDir]) + 1,
         Len(transactions[moduleDir]))

LogExtended ==
  /\ Len(transactions[moduleDir]) >= Len(pre.transactions[moduleDir])
  /\ SubSeq(transactions[moduleDir], 1, Len(pre.transactions[moduleDir]))
       = pre.transactions[moduleDir]

Untouched == Files = pre

\* the signed effect of one transaction row on an asset account
RowEffect(row) ==
  IF row.kind = "income"
     \/ (row.kind = "transfer" /\ row.category = CatTransferIn)
  THEN Abs(row.amount)
  ELSE IF row.kind \in {"expense", "interest"}
          \/ (row.kind = "transfer" /\ row.category = CatTransferOut)
  THEN 0 - Abs(row.amount)
  ELSE 0

RECURSIVE SumEffects(_, _)
SumEffects(txs, account_id) ==
  IF txs = <<>> THEN 0
  ELSE (IF Head(txs).account_id = account_id THEN RowEffect(Head(txs)) ELSE 0)
       + SumEffects(Tail(txs), account_id)

CardSign(account) == IF account.account_type = "Credit Card" THEN 0 - 1 ELSE 1

Reconciled(u) ==
  \A i \in DOMAIN accounts[u] :
     accounts[u][i].balance =
        opening[u][i]
        + CardSign(accounts[u][i])
            * SumEffects(transactions[u], accounts[u][i].account_id)

\* C1: after any sequence of completed operations every account's balance is
\* its opening balance plus the signed effect of the rows recorded for it
\* (+|amount| for income and transfer_in, -|amount| for expense, transfer_out
\* and interest, the sign inverted for a "Credit Card").
C1_BalancesReconcile == pc = "idle" => Reconciled(moduleDir)

\* C2: post_income on an existing account moves its balance by +|x| (by -|x|
\* for a "Credit Card"), post_expense by the opposite; one row of that kind
\* and account is appended and no other balance changes.
C2_PostingEffect ==
  (last.op \in {"post_income", "post_expense"}
     /\ FirstIndex(pre.accounts[moduleDir], last.account_id) # 0)
  => LET before == pre.accounts[moduleDir]
         after == accounts[moduleDir]
         k == FirstIndex(before, last.account_id)
         sign == IF last.op = "post_income" THEN 1 ELSE 0 - 1
     IN  /\ Len(after) = Len(before)
         /\ after[k].balance
              = before[k].balance + sign * CardSign(before[k]) * Abs(last.amount)
         /\ \A j \in DOMAIN before : j # k => after[j] = before[j]
         /\ \A u \in Users : u # moduleDir => accounts[u] = pre.accounts[u]
         /\ LogExtended
         /\ Len(NewRows) = 1
         /\ NewRows[1].kind = (IF last.op = "post_income" THEN "income"
                               ELSE "expense")
         /\ NewRows[1].account_id = last.account_id

C2_Witness ==
  /\ last.op = "post_income"
  /\ last.account_id = IdC
  /\ last.amount < 0
  /\ accounts[moduleDir][3].balance = pre.accounts[moduleDir][3].balance - 500

\* dashboard._is_liability
IsLiability(acc_type) == TypeNorm(acc_type) \in {"credit card", "loan", "liability"}

RECURSIVE TotalBalance(_)
TotalBalance(acc) ==
  IF acc = <<>> THEN 0
  ELSE (IF IsLiability(Head(acc).account_type) THEN 0 - Head(acc).balance
        ELSE Head(acc).balance)
       + TotalBalance(Tail(acc))

\* C3: a transfer of x > 0 between any two account ids leaves the total
\* system balance (liabilities negated) as it was.
C3_TransferKeepsTotal ==
  (last.op = "transfer" /\ last.amount > 0)
  => TotalBalance(accounts[moduleDir]) = TotalBalance(pre.accounts[moduleDir])

\* C4: a transfer appends exactly two rows, a transfer_out row on the source
\* and a transfer_in row on the destination, each naming the other account as
\* counterparty, with the same date, amount and currency and different ids.
C4_TransferRows ==
  last.op = "transfer"
  => /\ LogExtended
     /\ Len(NewRows) = 2
     /\ NewRows[1].category = CatTransferOut
     /\ NewRows[1].account_id = last.account_id
     /\ NewRows[1].counterparty_account_id = last.to_id
     /\ NewRows[2].category = CatTransferIn
     /\ NewRows[2].account_id = last.to_id
     /\ NewRows[2].counterparty_account_id = last.account_id
     /\ NewRows[1].date = NewRows[2].date
     /\ NewRows[1].amount = NewRows[2].amount
     /\ NewRows[1].currency = NewRows[2].currency
     /\ NewRows[1].id # NewRows[2].id
     /\ \A u \in Users : u # moduleDir => transactions[u] = pre.transactions[u]

C4_Witness ==
  /\ last.op = "transfer"
  /\ last.account_id = IdA
  /\ last.to_id = IdC
  /\ Len(pre.transactions[moduleDir]) > 0
  /\ Len(NewRows) = 2

\* C9: a posting that names an account_id absent from the account set fails
\* with an error and changes no balance and appends no row.
C9_UnknownAccountRejected ==
  (/\ last.op \in {"post_income", "post_expense", "transfer"}
   /\ \/ FirstIndex(pre.accounts[moduleDir], last.account_id) = 0
      \/ (last.op = "transfer"
            /\ FirstIndex(pre.accounts[moduleDir], last.to_id) = 0))
  => (last.raised # "" /\ Untouched)

\* C10: a non-positive amount given to a posting operation is rejected with
\* an error and no balance, debt, statement or row changes.
C10_NonPositiveAmountRejected ==
  (/\ last.op \in {"post_income", "post_expense", "transfer", "pay_debt",
                   "record_cc_payment"}
   /\ last.amount <= 0)
  => (last.raised # "" /\ Untouched)


\* the table the recurring processor that ended last reads and writes
RunKind == IF last.op = "process_recurring_expenses" THEN "expense" ELSE "income"

RunTable == IF RunKind = "expense" THEN "recurring_expenses" ELSE "recurring_incomes"

FileBefore ==
  IF RunKind = "expense" THEN pre.recurring_expenses[last.user]
  ELSE pre.recurring_incomes[last.user]

FileAfter ==
  IF RunKind = "expense" THEN recurring_expenses[last.user]
  ELSE recurring_incomes[last.user]

RunEnded ==
  /\ pc = "idle"
  /\ last.op \in {"process_recurring_expenses", "process_recurring_incomes"}
  /\ last.result = 1

\* the dates of the rows that the run appended for schedule id, in log order
RECURSIVE DatesFor(_, _, _)
DatesFor(rows, table, id) ==
  IF rows = <<>> THEN <<>>
  ELSE (IF Head(rows).ref_table = table /\ Head(rows).ref_id = id
        THEN <<Head(rows).date>> ELSE <<>>)
       \o DatesFor(Tail(rows), table, id)

\* d0, advance(d0), advance(advance(d0)), ... up to day; next is what follows
RECURSIVE Occurrences(_, _, _)
Occurrences(d, frequency, day) ==
  IF d > day THEN <<>>
  ELSE <<d>> \o Occurrences(FreqOffset(frequency, d), frequency, day)

RECURSIVE FirstAfter(_, _, _)
FirstAfter(d, frequency, day) ==
  IF d > day THEN d ELSE FirstAfter(FreqOffset(frequency, d), frequency, day)

Increasing(dates) == \A i \in 1..(Len(dates) - 1) : dates[i] < dates[i + 1]

\* C5: one run posts one entry for each occurrence d0, advance(d0), ... that
\* is <= today, dated with that occurrence and in increasing order, and
\* persists a next_due_date > today; a schedule not yet due gets no posting
\* and stays as it is.
C5_RunPostsEachOccurrence ==
  RunEnded
  => \A i \in DOMAIN FileBefore :
        LET row == FileBefore[i]
            posted == DatesFor(NewRows, RunTable, row.id)
        IN  (row.next_due_date >= 1 /\ row.frequency \in Frequencies)
            => /\ posted = Occurrences(row.next_due_date, row.frequency, last.when)
               /\ Increasing(posted)
               /\ FileAfter[i].next_due_date > last.when
               /\ FileAfter[i].next_due_date
                    = FirstAfter(row.next_due_date, row.frequency, last.when)
               /\ row.next_due_date > last.when
                    => (posted = <<>> /\ FileAfter[i] = row)

C5_Witness ==
  /\ RunEnded
  /\ RunKind = "expense"
  /\ Len(FileBefore) = 2
  /\ FileBefore[1].frequency = "Monthly"
  /\ FileBefore[1].next_due_date = 31
  /\ DatesFor(NewRows, RunTable, 1) = <<31, 60>>
  /\ FileAfter[1].next_due_date = 89
  /\ FileBefore[2].next_due_date = 62
  /\ FileAfter[2] = FileBefore[2]

\* C6: a row whose frequency is none of the seven is skipped: nothing is
\* posted for it and its next_due_date is left as it was.
C6_BadFrequencySkipped ==
  \A u \in Users : \A i \in DOMAIN recurring_expenses[u] :
     recurring_expenses[u][i].frequency \notin Frequencies
     => DatesFor(transactions[moduleDir], "recurring_expenses",
                 recurring_expenses[u][i].id) = <<>>


FilesOf(F, u) ==
  <<F.accounts[u], F.transactions[u], F.recurring_expenses[u],
    F.recurring_incomes[u], F.debts[u], F.statements[u], F.rules[u]>>

\* C7: an operation in user U's session changes only files of U's own
\* directory, whoever was served by the process before.
C7_OwnDirectoryOnly ==
  (last.op \notin {"none", "login"})
  => \A v \in Users : v # last.user => FilesOf(Files, v) = FilesOf(pre, v)

\* the cards that accrue_credit_card_interest charges, as the operation found them
ChargedCards ==
  {i \in DOMAIN pre.accounts[moduleDir] :
     /\ pre.accounts[moduleDir][i].account_type = "Credit Card"
     /\ pre.accounts[moduleDir][i].balance > 0
     /\ pre.accounts[moduleDir][i].apr > 0}

RowsOwed ==
  CASE last.op = "post_income" -> 1
    [] last.op = "post_expense" -> 1
    [] last.op = "transfer" -> 2
    [] last.op = "accrue_credit_card_interest" -> Cardinality(ChargedCards)
    [] OTHER -> 0

\* C8: when a ledger operation ends, normally or by a failure, either its
\* balance change and all its rows are persisted or none of them is.
C8_AllOrNothing ==
  (pc = "idle"
     /\ last.op \in {"post_income", "post_expense", "transfer",
                     "accrue_credit_card_interest"})
  => \/ accounts[moduleDir] = pre.accounts[moduleDir] /\ Len(NewRows) = 0
     \/ accounts[moduleDir] # pre.accounts[moduleDir] /\ Len(NewRows) = RowsOwed

\* ------------------------------------------------------------- the debts
DebtAt(D, id) == D[MinOf({i \in DOMAIN D : D[i].id = id})]

\* C11: when pay_debt pays an unlinked debt, current_balance is lowered by
\* the payment but never below 0, and the expense row posted for audit
\* carries the decrement actually applied (old balance minus new balance)
C11_AuditEqualsDecrement ==
  (last.op = "pay_debt" /\ last.raised = "" /\ last.to_id = NoText)
  => LET old == DebtAt(pre.debts[moduleDir], last.result).current_balance
         new == DebtAt(debts[moduleDir], last.result).current_balance
     IN  /\ new = Max2(0, old - last.amount)
         /\ Len(NewRows) = 1
         /\ NewRows[1].kind = "expense"
         /\ NewRows[1].amount = old - new

\* the debts that the accrual is to act on, in the words of the claim
AccrualType(d) == d.debt_type \in {"loan", "overdraft", "other"}

LinkedRow(acc, d) == FirstIndex(acc, d.account_id)

IsLinked(acc, d) == d.account_id # NoText /\ LinkedRow(acc, d) # 0

Principal(acc, d) ==
  IF IsLinked(acc, d) THEN acc[LinkedRow(acc, d)].balance
  ELSE d.current_balance

\* round(principal * apr/100/12, 2), whatever the sign of the principal
InterestAsStated(acc, d) == RoundDiv(Principal(acc, d) * d.apr, 1200)

\* the same, and 0 when the principal is not positive
InterestOnOwed(acc, d) ==
  IF Principal(acc, d) > 0 THEN InterestAsStated(acc, d) ELSE 0

RowsFor(rows, table, id) ==
  {k \in DOMAIN rows : rows[k].ref_table = table /\ rows[k].ref_id = id}

\* what the claim says of one debt row, given the interest it is charged
AccruedAsClaimed(i, interest) ==
  LET acc == pre.accounts[moduleDir]
      d == pre.debts[moduleDir][i]
      now == debts[moduleDir][i]
      mine == RowsFor(NewRows, "debts_interest", d.id)
      due == AccrualType(d) /\ d.apr > 0 /\ interest # 0
  IN  IF ~due THEN now = d /\ mine = {}
      ELSE IF IsLinked(acc, d)
      THEN /\ now = d
           /\ Cardinality(mine) = 1
           /\ \A k \in mine :
                /\ NewRows[k].kind = "expense"
                /\ NewRows[k].category = CatInterestLoan
                /\ NewRows[k].account_id = d.account_id
                /\ NewRows[k].amount = interest
      ELSE /\ now = [d EXCEPT !.current_balance = d.current_balance + interest]
           /\ mine = {}

CountAccrued(interestOf(_, _)) ==
  Cardinality({i \in DOMAIN pre.debts[moduleDir] :
     LET d == pre.debts[moduleDir][i]
     IN  AccrualType(d) /\ d.apr > 0
         /\ interestOf(pre.accounts[moduleDir], d) # 0})

AccrualEnded == last.op = "accrue_loan_interest_all"

\* C12 as stated: interest = round(principal * apr/100/12, 2) for every
\* debt of type loan, overdraft or other with apr > 0
C12_AsStated ==
  AccrualEnded
  => /\ Len(debts[moduleDir]) = Len(pre.debts[moduleDir])
     /\ \A i \in DOMAIN pre.debts[moduleDir] :
          AccruedAsClaimed(i, InterestAsStated(pre.accounts[moduleDir],
                                               pre.debts[moduleDir][i]))
     /\ last.result = CountAccrued(InterestAsStated)

\* C12: accrue_loan_interest_all charges every debt of type loan, overdraft
\* or other with apr > 0 and a positive principal the interest
\* round(principal * apr/100/12, 2), the principal being the linked account's
\* balance when the debt is linked to an existing account and current_balance
\* otherwise; a linked debt gets one expense row of category "Interest" on
\* the linked account and keeps its current_balance, an unlinked debt gets
\* the interest added to current_balance and no row; every other debt is
\* unchanged, and the count returned is the number of debts charged
C12_LoanInterestAccrued ==
  AccrualEnded
  => /\ Len(debts[moduleDir]) = Len(pre.debts[moduleDir])
     /\ \A i \in DOMAIN pre.debts[moduleDir] :
          AccruedAsClaimed(i, InterestOnOwed(pre.accounts[moduleDir],
                                             pre.debts[moduleDir][i]))
     /\ last.result = CountAccrued(InterestOnOwed)
     /\ Len(NewRows) = Cardinality({i \in DOMAIN pre.debts[moduleDir] :
           RowsFor(NewRows, "debts_interest", pre.debts[moduleDir][i].id) # {}})

\* a linked loan and an unlinked overdraft are both charged in one call
C12_Witness ==
  /\ AccrualEnded
  /\ last.result = 2
  /\ Len(pre.debts[moduleDir]) = 2
  /\ IsLinked(pre.accounts[moduleDir], pre.debts[moduleDir][1])
  /\ pre.debts[moduleDir][1].debt_type = "loan"
  /\ ~IsLinked(pre.accounts[moduleDir], pre.debts[moduleDir][2])
  /\ Len(NewRows) = 1
  /\ NewRows[1].amount = 25
  /\ debts[moduleDir][2].current_balance = 50500

\* -------------------------------------------------------------- the cards
CardInterestEnded == last.op = "accrue_credit_card_interest"

CardOwing(a) == a.account_type = "Credit Card" /\ a.balance > 0 /\ a.apr > 0

RowsOf(rows, account_id) == {k \in DOMAIN rows : rows[k].account_id = account_id}

\* what the claim says of account row i, charged when `charged` holds
CardAccrued(i, charged) ==
  LET a == pre.accounts[moduleDir][i]
      now == accounts[moduleDir][i]
      interest == RoundDiv(a.balance * a.apr, 1200)
      mine == RowsOf(NewRows, a.account_id)
  IN  IF charged
      THEN /\ now = [a EXCEPT !.balance = a.balance + interest]
           /\ Cardinality(mine) = 1
           /\ \A k \in mine : NewRows[k].kind = "interest"
                              /\ NewRows[k].amount = interest
      ELSE now = a /\ mine = {}

\* C13 as stated: every "Credit Card" account with balance > 0 and apr > 0
\* is charged and gets one interest row
C13_AsStated ==
  CardInterestEnded
  => /\ Len(accounts[moduleDir]) = Len(pre.accounts[moduleDir])
     /\ \A i \in DOMAIN pre.accounts[moduleDir] :
          CardAccrued(i, CardOwing(pre.accounts[moduleDir][i]))

\* C13: accrue_credit_card_interest raises the owed balance of every
\* "Credit Card" account with balance > 0 and apr > 0 whose interest
\* round(balance * apr/100/12, 2) is above 0 by that interest (20.00 for
\* 1000.00 at 24) and appends exactly one interest row of that amount for
\* it; every other account keeps its balance and gets no row
C13_CardInterestAccrued ==
  CardInterestEnded
  => /\ Len(accounts[moduleDir]) = Len(pre.accounts[moduleDir])
     /\ \A i \in DOMAIN pre.accounts[moduleDir] :
          LET a == pre.accounts[moduleDir][i]
          IN  CardAccrued(i, CardOwing(a)
                             /\ RoundDiv(a.balance * a.apr, 1200) > 0)
     /\ LogExtended

\* 1000.00 at 24 is charged 20.00 and a second card is charged in the same call
C13_Witness ==
  /\ CardInterestEnded
  /\ Len(pre.accounts[moduleDir]) = 4
  /\ pre.accounts[moduleDir][3].balance = 100000
  /\ pre.accounts[moduleDir][3].apr = 24
  /\ accounts[moduleDir][3].balance = 102000
  /\ accounts[moduleDir][4].balance = 60900
  /\ Len(NewRows) = 2
  /\ NewRows[1].amount = 2000

\* ------------------------------------------------------------- statements
RECURSIVE PaidSum(_, _)
PaidSum(P, id) ==
  IF P = <<>> THEN 0
  ELSE (IF Head(P).stmt_id = id THEN Head(P).amount ELSE 0)
       + PaidSum(Tail(P), id)

PaymentsOf(P, id) == {k \in DOMAIN P : P[k].stmt_id = id}

StatementBalancesKept ==
  /\ Len(statements[moduleDir]) >= Len(pre.statements[moduleDir])
  /\ \A i \in DOMAIN pre.statements[moduleDir] :
       statements[moduleDir][i].statement_balance
         = pre.statements[moduleDir][i].statement_balance

\* C14 as stated: carried_balance = max(0, statement_balance - paid_amount)
\* on every statement row
C14_AsStated ==
  /\ \A i \in DOMAIN statements[moduleDir] :
       LET r == statements[moduleDir][i]
       IN  /\ r.paid_amount = PaidSum(payments[moduleDir], r.id)
           /\ r.carried_balance = Max2(0, r.statement_balance - r.paid_amount)
  /\ StatementBalancesKept

\* C14: after any sequence of close_statement and record_cc_payment, every
\* statement row has paid_amount equal to the sum of the payments recorded
\* against it; carried_balance is statement_balance while no payment has been
\* recorded and max(0, statement_balance - paid_amount) from the first
\* payment on; statement_balance never changes once the statement is closed
C14_StatementAggregates ==
  /\ \A i \in DOMAIN statements[moduleDir] :
       LET r == statements[moduleDir][i]
       IN  /\ r.paid_amount = PaidSum(payments[moduleDir], r.id)
           /\ r.carried_balance =
                IF PaymentsOf(payments[moduleDir], r.id) = {}
                THEN r.statement_balance
                ELSE Max2(0, r.statement_balance - r.paid_amount)
  /\ StatementBalancesKept

\* a statement paid twice, the second time beyond what it asked for
C14_Witness ==
  /\ Len(statements[moduleDir]) = 1
  /\ Cardinality(PaymentsOf(payments[moduleDir], 1)) = 2
  /\ statements[moduleDir][1].paid_amount = 40500
  /\ statements[moduleDir][1].statement_balance = 30000
  /\ statements[moduleDir][1].carried_balance = 0

\* C15: close_statement on a "Credit Card" account appends exactly one
\* statement row: statement_balance the balance the card owes at that moment,
\* min_due = max(min_floor, min_pct% of |statement_balance|), due_date =
\* period_end + due_days, paid_amount 0, carried_balance = statement_balance
\* and an id above every id in the file; no account, no transaction and no
\* earlier statement row changes
C15_StatementClosed ==
  (last.op = "close_statement"
   /\ FirstIndex(pre.accounts[moduleDir], last.account_id) # 0
   /\ pre.accounts[moduleDir][FirstIndex(pre.accounts[moduleDir],
                                         last.account_id)].account_type
        = "Credit Card")
  => LET card == pre.accounts[moduleDir][FirstIndex(pre.accounts[moduleDir],
                                                    last.account_id)]
         old == pre.statements[moduleDir]
         S == statements[moduleDir]
         r == S[Len(S)]
         pct == (Abs(card.balance) * MinPct + 50) \div 100
     IN  /\ last.raised = ""
         /\ Len(S) = Len(old) + 1
         /\ SubSeq(S, 1, Len(old)) = old
         /\ r.card_account_id = last.account_id
         /\ r.statement_balance = card.balance
         /\ r.min_due = IF pct > MinFloor THEN pct ELSE MinFloor
         /\ r.due_date = last.when + DueDays
         /\ r.period_end = last.when
         /\ r.paid_amount = 0
         /\ r.carried_balance = card.balance
         /\ \A i \in DOMAIN old : r.id > old[i].id
         /\ r.id = last.result
         /\ accounts = pre.accounts
         /\ transactions = pre.transactions

\* the worked example: 300.00 owed gives a minimum of 25.00, due 25 days on
C15_Witness ==
  /\ last.op = "close_statement"
  /\ last.raised = ""
  /\ Len(statements[moduleDir]) = 2
  /\ statements[moduleDir][2].statement_balance = 30000
  /\ statements[moduleDir][2].min_due = 2500
  /\ statements[moduleDir][2].due_date = Day0 + 25
  /\ statements[moduleDir][2].id = 2

\* ------------------------------------------------------ absent references
HasId(rows, id) == \E i \in DOMAIN rows : rows[i].id = id

StatementAbsent ==
  last.op = "record_cc_payment" /\ ~HasId(pre.statements[moduleDir], last.result)

DebtAbsent ==
  /\ last.op = "pay_debt"
  /\ last.to_id = NoText
  /\ last.result = 0 \/ ~HasId(pre.debts[moduleDir], last.result)

NotACard ==
  /\ last.op = "close_statement"
  /\ LET i == FirstIndex(pre.accounts[moduleDir], last.account_id)
     IN  i = 0 \/ pre.accounts[moduleDir][i].account_type # "Credit Card"

\* C16: record_cc_payment with an unknown stmt_id, pay_debt on an unlinked
\* debt with a missing or unknown debt_row_id, and close_statement on a
\* missing or non-credit-card account each raise an error and leave
\* accounts, transactions, debts and statements exactly as they were
C16_AbsentReferenceRejected ==
  (StatementAbsent \/ DebtAbsent \/ NotACard)
  => last.raised # "" /\ Untouched

\* a payment against statement 9 when the file holds statement 1 only
C16_Witness ==
  /\ StatementAbsent
  /\ last.result = 9
  /\ last.amount = 500
  /\ Len(pre.statements[moduleDir]) = 1
  /\ last.raised = "ValueError"

\* -------------------------------------------------------------- the rules
RulesRun == last.op = "apply_rules_to_transactions"

\* the value of the field a rule looks in; a rule without match_field looks
\* in the note
FieldValue(row, r) ==
  CASE r.match_field = "category" -> row.category
    [] r.match_field = "account_id" -> row.account_id
    [] OTHER -> row.note

Occurs(needle, text, case_sensitive) ==
  IF case_sensitive THEN IsSubstring(needle, text)
  ELSE IsSubstring(Lower(needle), Lower(text))

\* the active rules of file R whose non-empty text occurs in the row
Candidates(row, R) ==
  {k \in DOMAIN R :
     /\ R[k].active
     /\ R[k].contains # NoText
     /\ Occurs(R[k].contains, FieldValue(row, R[k]), R[k].case_sensitive)}

\* the candidate that comes first in ascending (priority, id) order
Winner(row, R) ==
  CHOOSE k \in Candidates(row, R) :
     \A j \in Candidates(row, R) :
        \/ R[k].priority < R[j].priority
        \/ R[k].priority = R[j].priority /\ R[k].id <= R[j].id

HasCategory(row) == \E i \in DOMAIN row.category : row.category[i] # " "

LowerKind(k) ==
  CASE k = "Expense" -> "expense" [] k = "Income" -> "income" [] OTHER -> k

Categorised(row, R) ==
  LET r == R[Winner(row, R)]
  IN  [row EXCEPT !.category = r.category,
                  !.kind = IF r.kind # "" THEN LowerKind(r.kind) ELSE @]

Matched(txs, R) ==
  {i \in DOMAIN txs : ~HasCategory(txs[i]) /\ Candidates(txs[i], R) # {}}

\* C17: a persisted run gives every transaction whose category is empty or
\* blank the category of the first active rule, in ascending (priority, id)
\* order, whose non-empty text occurs in the field the rule names (without
\* regard to case unless case_sensitive), and the rule's kind in lower case
\* when the rule has one; a transaction that no rule matches and a
\* transaction that has a category are left as they were
C17_FirstRuleCategorises ==
  (RulesRun /\ ~last.dry_run)
  => LET old == pre.transactions[moduleDir]
         R == pre.rules[moduleDir]
     IN  /\ Len(transactions[moduleDir]) = Len(old)
         /\ \A i \in DOMAIN old :
              transactions[moduleDir][i] =
                 IF i \in Matched(old, R) THEN Categorised(old[i], R)
                 ELSE old[i]
         /\ rules = pre.rules

\* two rules match the imported row; the one with the lower priority number
\* stands second in the file and gives the row its category and its kind
C17_Witness ==
  /\ RulesRun /\ ~last.dry_run
  /\ Len(pre.rules[moduleDir]) = 2
  /\ pre.rules[moduleDir][1].priority = 200
  /\ Len(pre.transactions[moduleDir]) = 2
  /\ Cardinality(Candidates(pre.transactions[moduleDir][2],
                            pre.rules[moduleDir])) = 2
  /\ pre.transactions[moduleDir][2].kind = "expense"
  /\ transactions[moduleDir][2].category = CatSalary
  /\ transactions[moduleDir][2].kind = "income"
  /\ HasCategory(pre.transactions[moduleDir][1])
  /\ transactions[moduleDir][1] = pre.transactions[moduleDir][1]

\* C18: a run of apply_rules_to_transactions that follows a persisted run,
\* with the same rules and no new rows, changes no transaction and returns 0
C18_SecondRunChangesNothing ==
  (RulesRun /\ last.again)
  => last.result = 0 /\ transactions = pre.transactions

\* C19: a dry run returns the count that a persisted run returns on the same
\* files, the number of transactions that a rule matched, and leaves the
\* stored transactions, rules and accounts as they were
C19_DryRunCountsOnly ==
  RulesRun
  => /\ last.result = Cardinality(Matched(pre.transactions[moduleDir],
                                          pre.rules[moduleDir]))
     /\ last.dry_run => Untouched

\* a dry run that counts two rows and writes nothing
C19_Witness ==
  /\ RulesRun
  /\ last.dry_run
  /\ last.result = 2
  /\ Untouched
  /\ \A i \in DOMAIN transactions[moduleDir] :
        ~HasCategory(transactions[moduleDir][i])

\* ------------------------------------------------------------ two sessions
BothDone == \A s \in Sessions : sessions[s].pc = "done"

\* the session whose save_accounts wrote n-th
Writer(n) == CHOOSE s \in Sessions : sessions[s].saved_at = n

\* what the posting of session s adds to an account that holds funds
Effect(s, row) ==
  IF row.account_id = sessions[s].account_id THEN Abs(sessions[s].amount)
  ELSE 0

\* the rows that session s has in the log
LoggedBy(s) ==
  {k \in DOMAIN transactions[moduleDir] :
     /\ transactions[moduleDir][k].account_id = sessions[s].account_id
     /\ transactions[moduleDir][k].amount = sessions[s].amount}

\* C20: the last full-file write wins.  When two postings of one user run
\* at once and both have ended, the accounts file is what the session that
\* saved last wrote: every balance carries that session's posting, and the
\* posting of the session that saved first only if the last one read the
\* file after that first save
C20_LastWriteWins ==
  BothDone
  => \A i \in DOMAIN accounts[moduleDir] :
        LET row == accounts[moduleDir][i]
            first == Writer(1)
            second == Writer(2)
        IN  row.balance =
              opening[moduleDir][i] + Effect(second, row)
              + (IF sessions[second].loaded_at = 0 THEN 0
                 ELSE Effect(first, row))

\* the race: both rows are in the log and the balance has one posting only
C20_Witness ==
  /\ BothDone
  /\ sessions["s1"].account_id = IdA /\ sessions["s1"].amount = 500
  /\ sessions["s2"].account_id = IdA /\ sessions["s2"].amount = 700
  /\ Len(transactions[moduleDir]) = 2
  /\ LoggedBy("s1") # {} /\ LoggedBy("s2") # {}
  /\ accounts[moduleDir][1].account_id = IdA
  /\ accounts[moduleDir][1].balance = opening[moduleDir][1] + 700

\* ---------------------------------------------------------- transaction ids
\* the id that _next_seq_id gives to the row at position k of the log
IdAfter(txs, k) ==
  IF k = 1 THEN 1 ELSE MaxOf({txs[j].id : j \in 1..(k - 1)}) + 1

\* C21: with one writer, the rows that the log had when the handler started
\* keep their ids, every row appended since has the largest id before it
\* plus one (1 in an empty log), and so the ids of the log are strictly
\* increasing in append order and pairwise distinct
C21_IdsSequential ==
  \A u \in Users :
     LET old == pre.transactions[u]
         new == transactions[u]
     IN  /\ Len(old) <= Len(new)
         /\ \A k \in DOMAIN old : new[k].id = old[k].id
         /\ \A k \in DOMAIN new : k > Len(old) => new[k].id = IdAfter(new, k)
         /\ \A j \in DOMAIN new, k \in DOMAIN new :
               j < k => new[j].id < new[k].id

\* a second operation has appended to a log that already had rows
C21_Witness ==
  /\ pc = "idle"
  /\ last.op \in {"post_income", "post_expense", "transfer", "pay_debt"}
  /\ Len(pre.transactions[moduleDir]) >= 2
  /\ Len(transactions[moduleDir]) > Len(pre.transactions[moduleDir])

\* ------------------------------------------------------------- account ids
\* C22: no two rows of a user's accounts file have the same account_id
C22_AccountIdUnique ==
  \A u \in Users :
     \A i \in DOMAIN accounts[u], j \in DOMAIN accounts[u] :
        i # j => accounts[u][i].account_id # accounts[u][j].account_id

\* ------------------------------------------ a posting of a schedule fails
\* a run of a recurring processor has reached its final save
RunSaved == RunEnded /\ last.raised = ""

FailedRows == {f.i : f \in last.failed}

\* C23: when a posting of a schedule raised in a run that then saved, the
\* schedule has a posting for each of its occurrences before the one that
\* failed and for no other, and its persisted next_due_date is the date of
\* the occurrence that failed, which is still due; every other schedule of
\* the file has all its due occurrences posted and is persisted with the
\* first date after today
C23_FailureStopsOneSchedule ==
  RunSaved
  => /\ \A f \in last.failed :
           LET row == FileBefore[f.i]
           IN  /\ DatesFor(NewRows, RunTable, row.id)
                    = Occurrences(row.next_due_date, row.frequency, f.nd - 1)
               /\ FileAfter[f.i] = [row EXCEPT !.next_due_date = f.nd]
               /\ f.nd <= last.when
     /\ \A i \in DOMAIN FileBefore :
           i \notin FailedRows
           => LET row == FileBefore[i]
              IN  /\ DatesFor(NewRows, RunTable, row.id)
                       = Occurrences(row.next_due_date, row.frequency, last.when)
                  /\ FileAfter[i] =
                       [row EXCEPT !.next_due_date =
                          FirstAfter(@, row.frequency, last.when)]

\* the second posting of the first schedule raised, and the second schedule
\* was posted after it
C23_Witness ==
  /\ RunSaved
  /\ Len(FileBefore) = 2
  /\ FailedRows = {1}
  /\ Len(DatesFor(NewRows, RunTable, FileBefore[1].id)) = 1
  /\ Len(DatesFor(NewRows, RunTable, FileBefore[2].id)) = 1
  /\ FileAfter[2].next_due_date > last.when

\* --------------------------------------------- a schedule without a date
\* C24: a schedule whose next_due_date cell holds no date gets no posting in
\* a run, and the run persists its row exactly as it was, the text of the
\* next_due_date cell included
C24_UndatedRowKept ==
  RunSaved
  => \A i \in DOMAIN FileBefore :
        IsNa(ToDatetime(FileBefore[i].next_due_date))
        => /\ DatesFor(NewRows, RunTable, FileBefore[i].id) = <<>>
           /\ FileAfter[i] = FileBefore[i]

\* ------------------------------------------------ income and then expense
\* a post_income(a, x) and then a post_expense(a, x) have just ended
RoundTrip == pc = "idle" /\ last.op = "post_expense" /\ last.again

\* C25: for an account that exists and is no liability and for x > 0, the
\* balance after post_income(a, x) and then post_expense(a, x) is the balance
\* that the post_income found
C25_IncomeThenExpense ==
  (/\ RoundTrip
   /\ last.amount > 0
   /\ FirstIndex(last.before, last.account_id) # 0
   /\ ~IsLiability(last.before[FirstIndex(last.before, last.account_id)].account_type))
  => LET i == FirstIndex(last.before, last.account_id)
     IN  /\ accounts[moduleDir][i].balance = last.before[i].balance
         /\ accounts[moduleDir] = last.before

\* the two postings were made to the current account and are both in the log
C25_Witness ==
  /\ RoundTrip
  /\ last.account_id = IdA
  /\ last.amount = 500
  /\ Len(transactions[moduleDir]) = 2
  /\ transactions[moduleDir][1].kind = "income"
  /\ transactions[moduleDir][2].kind = "expense"
  /\ pre.accounts[moduleDir][1].balance = last.before[1].balance + 500

\* ------------------------------------------------------ minimum payments
\* max(25.00, 3% of |balance|) in cents
ThreePerCentOrFloor(balance) == Max2(2500, RoundDiv(3 * Abs(balance), 100))

\* C26: the Debts page shows, for every debt, the explicit minimum if one
\* > 0 is configured and else max(25.00, 3% of |live balance|), which is
\* 25.00 for a balance of 500.00 and 60.00 for 2000.00; and the min_due of
\* every statement closed with the default pct and floor is what
\* default_min_payment gives for the statement balance without an explicit
\* minimum
C26_MinimumPayment ==
  /\ last.op = "get_debts"
     => \A i \in DOMAIN last.result :
           LET r == last.result[i]
           IN  /\ r.min_due = IF r.explicit_min > 0 THEN r.explicit_min
                              ELSE ThreePerCentOrFloor(r.balance)
               /\ (r.explicit_min = 0 /\ r.balance = 50000) => r.min_due = 2500
               /\ (r.explicit_min = 0 /\ r.balance = 200000) => r.min_due = 6000
  /\ \A i \in DOMAIN statements[moduleDir] :
        LET st == statements[moduleDir][i]
        IN  st.min_due = default_min_payment(st.statement_balance, 0)

\* the page has shown a debt of 2000.00 without an explicit minimum while a
\* statement of a card that owes more than 833.33 is on file
C26_Witness ==
  /\ last.op = "get_debts"
  /\ \E i \in DOMAIN last.result :
        /\ last.result[i].explicit_min = 0
        /\ last.result[i].balance = 200000
        /\ last.result[i].min_due = 6000
  /\ \E i \in DOMAIN statements[moduleDir] :
        statements[moduleDir][i].min_due > 2500

\* ----------------------------------------------------- the advance table
\* the months (k > 0) or days that the table adds for a frequency
MonthsOf(frequency) ==
  CASE frequency = "Yearly" -> 12
    [] frequency = "Monthly" -> 1
    [] frequency = "Bi-Monthly" -> 2
    [] frequency = "Quarterly" -> 3
    [] OTHER -> 0

DaysOf(frequency) ==
  CASE frequency = "Weekly" -> 7
    [] frequency = "Bi-Weekly" -> 14
    [] frequency = "Daily" -> 1
    [] OTHER -> 0

\* nd is d moved on by k months: the month k later, the same day of the
\* month or the last day of that month if it is shorter
MonthsLater(d, nd, k) ==
  LET a == ToYMD(d)
      b == ToYMD(nd)
  IN  /\ b[1] * 12 + b[2] = a[1] * 12 + a[2] + k
      /\ b[3] = Min2(a[3], DaysInMonth(b[1], b[2]))

\* a run has posted the one occurrence that was due and has saved
AdvancedOnce ==
  /\ RunSaved
  /\ Len(FileBefore) = 1
  /\ FileBefore[1].next_due_date = last.when
  /\ FileBefore[1].frequency \in Frequencies

\* C27: a schedule due today is persisted with its date moved on as the
\* table says, by 12, 1, 2 or 3 months with the day clamped to the end of
\* the month (2025-01-31 gives 2025-02-28 and 2024-01-31 gives 2024-02-29
\* for Monthly), or by 7, 14 or 1 days; the new date is later than the old
C27_AdvanceTable ==
  AdvancedOnce
  => LET d == FileBefore[1].next_due_date
         f == FileBefore[1].frequency
         nd == FileAfter[1].next_due_date
     IN  /\ MonthsOf(f) > 0 => MonthsLater(d, nd, MonthsOf(f))
         /\ DaysOf(f) > 0 => nd = d + DaysOf(f)
         /\ MonthsOf(f) > 0 \/ DaysOf(f) > 0
         /\ nd > d
         /\ (f = "Monthly" /\ d = FromYMD(2025, 1, 31)) => nd = FromYMD(2025, 2, 28)
         /\ (f = "Monthly" /\ d = FromYMD(2024, 1, 31)) => nd = FromYMD(2024, 2, 29)
         /\ DatesFor(NewRows, RunTable, FileBefore[1].id) = <<d>>

\* the Monthly schedule due on 2025-01-31 has been advanced
C27_Witness ==
  /\ AdvancedOnce
  /\ FileBefore[1].frequency = "Monthly"
  /\ FileBefore[1].next_due_date = FromYMD(2025, 1, 31)
  /\ ToYMD(FileAfter[1].next_due_date) = <<2025, 2, 28>>

\* ------------------------------------------------- runs that end early
\* the occurrence dates posted so far for a schedule of the first file
PostedFor(table, id) == DatesFor(transactions[moduleDir], table, id)

NoDateTwice(dates) ==
  \A j \in DOMAIN dates, k \in DOMAIN dates : j # k => dates[j] # dates[k]

\* C28: over any number of runs, no occurrence date of a schedule is in the
\* log twice
C28_EachOccurrenceOnce ==
  pc = "idle"
  => /\ \A i \in DOMAIN recurring_expenses[username] :
           NoDateTwice(PostedFor("recurring_expenses",
                                 recurring_expenses[username][i].id))
     /\ \A i \in DOMAIN recurring_incomes[username] :
           NoDateTwice(PostedFor("recurring_incomes",
                                 recurring_incomes[username][i].id))

\* ------------------------------------------------ linked and unlinked debts
\* the live balance of a debt: the balance of the account it is linked to,
\* or its own current_balance
LiveBalance(acc, d) == Principal(acc, d)

\* the debt row that the Debts page has paid: it passes the account_id of
\* the selected debt as debt_account_id and its id as debt_row_id
PaidRow(d) ==
  /\ last.op = "pay_debt" /\ last.raised = ""
  /\ last.result = d.id
  /\ last.to_id = d.account_id
  /\ d.account_id = NoText \/ IsLinked(pre.accounts[moduleDir], d)

\* no other debt row is linked to the same account
AloneOnAccount(D, i) ==
  \A j \in DOMAIN D : j # i => D[j].account_id # D[i].account_id

\* C29: linked or not, a payment of x that does not exceed the live balance
\* of a debt lowers its live balance by x, and an accrual raises the live
\* balance of a debt by the interest computed for it
C29_LiveBalanceResponds ==
  \A i \in DOMAIN pre.debts[moduleDir] :
     LET d == pre.debts[moduleDir][i]
         before == LiveBalance(pre.accounts[moduleDir], d)
         after == LiveBalance(accounts[moduleDir], debts[moduleDir][i])
         interest == InterestOnOwed(pre.accounts[moduleDir], d)
     IN  /\ (PaidRow(d) /\ last.amount > 0 /\ last.amount <= before)
            => after = before - last.amount
         /\ (/\ AccrualEnded
             /\ AccrualType(d) /\ d.apr > 0 /\ interest > 0
             /\ AloneOnAccount(pre.debts[moduleDir], i))
            => after = before + interest

\* ---------------------------------------------------- import, a second time
\* C30: when the rows that were just committed are uploaded into the same
\* account again, no row of them is new: no transaction is appended and no
\* balance changes
C30_SecondImportAddsNothing ==
  (last.op = "import" /\ last.again) => (last.result = 0 /\ Untouched)

====
